---- MODULE Spec2Model ----
(***************************************************************************)
(* Model of the mirror bot's AddressMonitor (src/bot/mirror/               *)
(* address_monitor.py) and of the two slot-limited paper portfolios        *)
(* (src/bot/mirror/portfolio.py, src/bot/datafeed/portfolio.py).           *)
(*                                                                         *)
(* Prices are integers in tenths (3 is 0.3).  Share counts are integers in *)
(* units of 10^-4 share, as produced by round(shares, 4).  Money is exact  *)
(* decimal arithmetic on pairs <<usdc, frac>> with frac counted in         *)
(* 10^-5 USDC, so that (exit - entry) * shares is represented exactly.     *)
(***************************************************************************)
EXTENDS Integers, Sequences, FiniteSets, TLC

(***************************************************************************)
(* Bounds of the model.                                                    *)
(***************************************************************************)
\* number of distinct position token ids the positions API reports
MaxAsset == 3
\* longest positions payload the API returns in one poll
MaxPayload == 2
\* polls of one address that fail in a row
MaxFailures == 1
\* token ids the callers open, close and reprice individually
MaxFocus == 1
\* ticks of the logical clock (closes and resets) since construction
MaxTime == 2
\* closes of the history scenario
MaxHistory == 52
\* events published on the bus, all producers together
MaxPublish == 2
\* events of the ring scenario
MaxRing == 302

\* AddressMonitor
VARIABLES
    addresses,   \* AddressMonitor._addresses: address -> WatchedAddress fields
    calls,       \* callbacks invoked by the most recent poll, in invocation order
    last_poll,   \* observation of the most recent poll (address, payload, pre-state)
    clock,       \* time.time(), in seconds
    poll_log     \* history: failed polls of each address since its last success

\* the paper portfolio (mirror PortfolioManager or DataFeedPortfolio)
VARIABLES
    kind,        \* which class the portfolio object is: "mirror" or "datafeed"
    portfolio,   \* _balance, _realized_pnl, _positions, _queue, _resolved
    stats,       \* cfg.stats of the watched address passed by the callbacks
    now,         \* time.time() as a logical clock: ticks at every close and reset
    prefill,     \* scenario: positions the environment opens before anything else
    last_call    \* the most recent portfolio call and what it returned

\* the threads that share the mirror portfolio
VARIABLES
    inflight     \* the poll thread's close_position_by_token between two statements

\* EventBus and the code around it
VARIABLES
    bus,         \* EventBus: _history, _subscribers, the subscribers' queues, _loop
    clients      \* producer threads inside publish, WebSocket handlers

\* PaperTrader and the stage-2 pool
VARIABLES
    trader,      \* PaperTrader._state and the state file
    workers      \* pool workers inside execute

\* the arbitrage kernel, the datafeed bot, the crypto scanner, the bots' loops
VARIABLES
    kernel,      \* find_arb_opportunity: its arguments and what it returned
    feed,        \* DataFeedBot._seen_events and the feed threads in _handle_event
    edge,        \* EdgeTracker: _pending, _measurements, the poll thread
    scan,        \* CryptoArbBot._do_scan: its fetch tasks and semaphores
    loops        \* the running flags of the bots and their loop threads

\* the market monitor's scan cycle, the crypto scanner's evaluation, Feed A
VARIABLES
    cycle,       \* Monitor.start: the scan loop and the stage-2 pool of one scan
    arb,         \* CryptoArbBot: counters and balance, the last evaluated pair
    football,    \* FootballFeed._last_fixtures and the events of the last poll
    poller       \* the poll thread inside _process_positions, and MirrorBot.reset

mvars == <<addresses, calls, last_poll, clock, poll_log>>
pvars == <<kind, portfolio, stats, now, prefill, last_call>>
bvars == <<bus, clients>>
tvars == <<trader, workers>>
xvars == <<kernel, feed, edge, scan, loops>>
yvars == <<cycle, arb, football, poller>>
vars == <<addresses, calls, last_poll, clock, poll_log, kind, portfolio, stats, now, prefill, last_call,
          inflight, bus, clients, trader, workers, kernel, feed, edge, scan, loops,
          cycle, arb, football, poller>>

(***************************************************************************)
(* AddressMonitor                                                          *)
(***************************************************************************)

Addrs == {"a1"}

\* "asset" values of a payload entry; 0 stands for a missing or empty asset
NoAsset == 0
Assets == 1..MaxAsset
PollPrices == {5}

\* one raw position dict of the positions API
PosDicts == [asset : {NoAsset} \cup Assets, curPrice : PollPrices]

RECURSIVE SeqsUpTo(_, _)
SeqsUpTo(S, n) ==
    IF n = 0 THEN {<<>>}
    ELSE LET shorter == SeqsUpTo(S, n - 1)
         IN shorter \cup {Append(s, x) : s \in {t \in shorter : Len(t) = n - 1}, x \in S}

Payloads == SeqsUpTo(PosDicts, MaxPayload)

\* A Python dict keyed by token id is kept as the sequence of its values in
\* insertion order; assigning an existing key keeps its place.
Keys(m) == {m[i].asset : i \in DOMAIN m}

KeySeq(m) == [i \in DOMAIN m |-> m[i].asset]

Lookup(m, tid) == m[CHOOSE i \in DOMAIN m : m[i].asset = tid]

MapPut(m, p) ==
    IF p.asset \in Keys(m)
    THEN [i \in DOMAIN m |-> IF m[i].asset = p.asset THEN p ELSE m[i]]
    ELSE Append(m, p)

\* new_map = {p["asset"]: p for p in positions if p.get("asset")}
RECURSIVE NewMap(_)
NewMap(positions) ==
    IF positions = <<>> THEN <<>>
    ELSE LET n    == Len(positions)
             init == NewMap(SubSeq(positions, 1, n - 1))
             p    == positions[n]
         IN IF p.asset # NoAsset THEN MapPut(init, p) ELSE init

\* opened_ids = [tid for tid in new_map if tid not in old_map]
OpenedIds(new_map, old_map) ==
    SelectSeq(KeySeq(new_map), LAMBDA tid : tid \notin Keys(old_map))

\* closed_ids = [tid for tid in old_map if tid not in new_map]
ClosedIds(new_map, old_map) ==
    SelectSeq(KeySeq(old_map), LAMBDA tid : tid \notin Keys(new_map))

Call(cb, pos) == [kind |-> cb, token |-> pos.asset, pos |-> pos]

\* (mutation: the closed loop runs before the opened loop)
DiffCalls_ClosedFirst(new_map, old_map) ==
    LET o == OpenedIds(new_map, old_map)
        c == ClosedIds(new_map, old_map)
    IN [i \in 1..Len(c) |-> Call("closed", Lookup(old_map, c[i]))]
       \o [i \in 1..Len(o) |-> Call("opened", Lookup(new_map, o[i]))]

\* the two callback loops of _process_positions: opened ids first, then closed ids
DiffCalls(new_map, old_map) ==
    LET o == OpenedIds(new_map, old_map)
        c == ClosedIds(new_map, old_map)
    IN [i \in 1..Len(o) |-> Call("opened", Lookup(new_map, o[i]))]
       \o [i \in 1..Len(c) |-> Call("closed", Lookup(old_map, c[i]))]

\* (mutation: the first poll is diffed against the empty map like any other)
ProcessPositions_NoBaseline(cfg, positions) ==
    LET new_map == NewMap(positions)
        old_map == cfg.last_positions
    IN [cfg   |-> [cfg EXCEPT !.last_poll_count  = Len(new_map),
                              !.is_initialized   = TRUE,
                              !.last_poll_new    = Len(OpenedIds(new_map, old_map)),
                              !.last_poll_closed = Len(ClosedIds(new_map, old_map)),
                              !.last_positions   = new_map],
        calls |-> DiffCalls(new_map, old_map)]

\* AddressMonitor._process_positions: the WatchedAddress after the poll and the
\* callbacks it invoked
ProcessPositions(cfg, positions) ==
    LET new_map == NewMap(positions)
        old_map == cfg.last_positions
    IN IF ~cfg.is_initialized
       THEN [cfg   |-> [cfg EXCEPT !.last_poll_count  = Len(new_map),
                                   !.last_positions   = new_map,
                                   !.is_initialized   = TRUE,
                                   !.last_poll_new    = 0,
                                   !.last_poll_closed = 0],
             calls |-> <<>>]
       ELSE [cfg   |-> [cfg EXCEPT !.last_poll_count  = Len(new_map),
                                   !.last_poll_new    = Len(OpenedIds(new_map, old_map)),
                                   !.last_poll_closed = Len(ClosedIds(new_map, old_map)),
                                   !.last_positions   = new_map],
             calls |-> DiffCalls(new_map, old_map)]

\* rate_limited_until = None
NoTime == -1

\* WatchedAddress as constructed by add_address / _load_persisted
NewWatchedAddress ==
    [is_initialized       |-> FALSE,
     last_positions       |-> <<>>,
     last_poll_count      |-> 0,
     last_poll_new        |-> 0,
     last_poll_closed     |-> 0,
     consecutive_failures |-> 0,
     last_poll_ts         |-> 0,
     rate_limited_until   |-> NoTime]

NoPoll == [addr |-> "none", outcome |-> "none", payload |-> <<>>,
           was_initialized |-> FALSE, old_map |-> <<>>]

NoFailures == [errors |-> 0, rate_limits |-> 0]

MonitorInit ==
    /\ addresses = [a \in Addrs |-> NewWatchedAddress]
    /\ calls = <<>>
    /\ last_poll = NoPoll
    /\ clock = 0
    /\ poll_log = [a \in Addrs |-> NoFailures]

\* _poll_address, fetch succeeded with `positions`
PollSuccess(a, positions) ==
    LET r == ProcessPositions(addresses[a], positions)
    IN /\ addresses' = [addresses EXCEPT ![a] =
                             [r.cfg EXCEPT !.consecutive_failures = 0,
                                           !.last_poll_ts = clock]]
       /\ calls' = r.calls
       /\ last_poll' = [addr |-> a, outcome |-> "ok", payload |-> positions,
                        was_initialized |-> addresses[a].is_initialized,
                        old_map |-> addresses[a].last_positions]
       /\ UNCHANGED <<clock, poll_log, pvars, inflight, bvars, tvars, xvars, yvars>>

\* _poll_address, _fetch_positions raised (rate limit or exhausted retries)
PollFailure(a) ==
    /\ addresses[a].consecutive_failures < MaxFailures
    /\ addresses' = [addresses EXCEPT ![a].consecutive_failures = @ + 1,
                                      ![a].last_poll_ts = clock]
    /\ calls' = <<>>
    /\ last_poll' = [addr |-> a, outcome |-> "failed", payload |-> <<>>,
                     was_initialized |-> addresses[a].is_initialized,
                     old_map |-> addresses[a].last_positions]
    /\ UNCHANGED <<clock, poll_log, pvars, inflight, bvars, tvars, xvars, yvars>>

\* AddressMonitor.reset_all
ResetAll ==
    /\ addresses' = [a \in Addrs |-> [addresses[a] EXCEPT !.is_initialized = FALSE,
                                                           !.last_positions = <<>>]]
    /\ calls' = <<>>
    /\ last_poll' = NoPoll
    /\ UNCHANGED <<clock, poll_log, pvars, inflight, bvars, tvars, xvars, yvars>>

(***************************************************************************)
(* AddressMonitor._poll_loop and the health of a WatchedAddress.  Time     *)
(* passes in steps of one poll interval; the jitter of at most 5 s is      *)
(* below that step.                                                        *)
(***************************************************************************)
STALE_FAILURES == 5
RATE_LIMIT_PAUSE == 60
POLL_INTERVAL == 30

\* steps of the clock
MaxTicks == 9

is_stale(cfg) == cfg.consecutive_failures >= STALE_FAILURES

is_rate_limited_Never(cfg, t) == FALSE

is_rate_limited(cfg, t) ==
    cfg.rate_limited_until # NoTime /\ t < cfg.rate_limited_until

health(cfg, t) ==
    IF is_stale(cfg) THEN "stale"
    ELSE IF is_rate_limited(cfg, t) THEN "rate_limited"
    ELSE "ok"

\* the checks of _poll_loop before it polls an address
Due(a) ==
    /\ ~is_rate_limited(addresses[a], clock)
    /\ clock >= addresses[a].last_poll_ts + POLL_INTERVAL

HealthPayloads == {<<>>, <<[asset |-> 1, curPrice |-> 5]>>}

PollRecord(a, outcome, positions) ==
    [addr |-> a, outcome |-> outcome, payload |-> positions,
     was_initialized |-> addresses[a].is_initialized,
     old_map |-> addresses[a].last_positions]

\* the loop polls an address and the fetch returns positions
LoopSuccess(a, positions) ==
    /\ Due(a)
    /\ LET r == ProcessPositions(addresses[a], positions)
       IN  /\ addresses' = [addresses EXCEPT ![a] =
                               [r.cfg EXCEPT !.consecutive_failures = 0,
                                             !.last_poll_ts = clock]]
           /\ calls' = r.calls
    /\ last_poll' = PollRecord(a, "ok", positions)
    /\ poll_log' = [poll_log EXCEPT ![a] = NoFailures]
    /\ UNCHANGED <<clock, pvars, inflight, bvars, tvars, xvars, yvars>>

\* the loop polls an address and the fetch raises after its retries
LoopError(a) ==
    /\ Due(a)
    /\ addresses' = [addresses EXCEPT ![a].consecutive_failures = @ + 1,
                                      ![a].last_poll_ts = clock]
    /\ calls' = <<>>
    /\ last_poll' = PollRecord(a, "failed", <<>>)
    /\ poll_log' = [poll_log EXCEPT ![a].errors = @ + 1]
    /\ UNCHANGED <<clock, pvars, inflight, bvars, tvars, xvars, yvars>>

\* the loop polls an address and the API answers 429
LoopRateLimited(a) ==
    /\ Due(a)
    /\ addresses' = [addresses EXCEPT
                        ![a].rate_limited_until = clock + RATE_LIMIT_PAUSE,
                        ![a].consecutive_failures = @ + 1,
                        ![a].last_poll_ts = clock]
    /\ calls' = <<>>
    /\ last_poll' = PollRecord(a, "rate_limited", <<>>)
    /\ poll_log' = [poll_log EXCEPT ![a].rate_limits = @ + 1]
    /\ UNCHANGED <<clock, pvars, inflight, bvars, tvars, xvars, yvars>>

Tick ==
    /\ clock < MaxTicks * POLL_INTERVAL
    /\ clock' = clock + POLL_INTERVAL
    /\ UNCHANGED <<addresses, calls, last_poll, poll_log,
                   pvars, inflight, bvars, tvars, xvars, yvars>>

\* one answer of the positions endpoint that resp.json() can parse: a list, a
\* {positions: [...]} envelope, or an object without a positions key
Bodies ==
    [shape : {"list", "envelope"}, positions : Payloads]
        \cup {[shape |-> "object", positions |-> <<>>]}

MAX_RETRIES == 5

\* _fetch_positions when its first `raising` attempts fail (transport error,
\* HTTP error, body that is not JSON) and the next one is answered by body
FetchPositions(raising, body) ==
    IF raising >= MAX_RETRIES
    THEN [raised |-> TRUE, positions |-> <<>>]
    ELSE [raised |-> FALSE,
          positions |-> IF body.shape = "list" THEN body.positions
                        ELSE IF body.shape = "envelope" THEN body.positions
                        ELSE <<>>]

\* what the endpoint sent in the poll: the shape that was processed, or
\* "unparsable" when no attempt gave JSON
Sent(raising, body) ==
    IF raising >= MAX_RETRIES THEN "unparsable" ELSE body.shape

\* _poll_address over _fetch_positions
PollResponse(a, raising, body) ==
    LET f == FetchPositions(raising, body)
        r == ProcessPositions(addresses[a], f.positions)
    IN  /\ f.raised => addresses[a].consecutive_failures < MaxFailures
        /\ addresses' = [addresses EXCEPT ![a] =
               IF f.raised
               THEN [@ EXCEPT !.consecutive_failures = @ + 1,
                              !.last_poll_ts = clock]
               ELSE [r.cfg EXCEPT !.consecutive_failures = 0,
                                  !.last_poll_ts = clock]]
        /\ calls' = IF f.raised THEN <<>> ELSE r.calls
        /\ last_poll' = [addr |-> a,
                         outcome |-> IF f.raised THEN "failed" ELSE "ok",
                         payload |-> f.positions,
                         was_initialized |-> addresses[a].is_initialized,
                         old_map |-> addresses[a].last_positions,
                         sent |-> Sent(raising, body)]
        /\ UNCHANGED <<clock, poll_log, pvars, inflight, bvars, tvars, xvars, yvars>>

FetchNext ==
    \E a \in Addrs, raising \in 0..MAX_RETRIES, body \in Bodies :
        PollResponse(a, raising, body)

BASE_DELAY == 1
MAX_DELAY == 32
MaxBackoffTime == 20
MaxPollFailures == 2

\* what the endpoint does with one HTTP attempt: a usable answer, a failure
\* (transport error, HTTP error, unusable body), or HTTP 429
Answers == {"ok", "error", "rate_limited"}

Backoff_Constant(delay) == delay

\* line 226
Backoff(delay) == IF delay * 2 < MAX_DELAY THEN delay * 2 ELSE MAX_DELAY

\* the loop of _fetch_positions from attempt number `attempt` (0-based) on,
\* given the answer each attempt would get
RECURSIVE Retry(_, _, _, _)
Retry(answers, attempt, delay, waits) ==
    IF attempt >= MAX_RETRIES
    THEN [result |-> "error", attempts |-> attempt, waits |-> waits]
    ELSE IF answers[attempt + 1] = "ok"
    THEN [result |-> "ok", attempts |-> attempt + 1, waits |-> waits]
    ELSE IF answers[attempt + 1] = "rate_limited"
    THEN [result |-> "rate_limited", attempts |-> attempt + 1, waits |-> waits]
    ELSE IF attempt < MAX_RETRIES - 1
    THEN Retry(answers, attempt + 1, Backoff(delay), Append(waits, delay))
    ELSE Retry(answers, attempt + 1, delay, waits)

RECURSIVE SumSeq(_)
SumSeq(seq) == IF seq = <<>> THEN 0 ELSE Head(seq) + SumSeq(Tail(seq))

\* _poll_address over the attempts of _fetch_positions; the positions of a
\* usable answer are `positions`
PollAttempts(a, answers, positions) ==
    LET f == Retry(answers, 0, BASE_DELAY, <<>>)
        r == ProcessPositions(addresses[a], positions)
        done == clock + SumSeq(f.waits)
    IN  /\ clock < MaxBackoffTime
        /\ addresses[a].consecutive_failures < MaxPollFailures
        /\ addresses' = [addresses EXCEPT ![a] =
               CASE f.result = "ok" ->
                      [r.cfg EXCEPT !.consecutive_failures = 0,
                                    !.last_poll_ts = clock]
                 [] f.result = "rate_limited" ->
                      [@ EXCEPT !.rate_limited_until = done + RATE_LIMIT_PAUSE,
                                !.consecutive_failures = @ + 1,
                                !.last_poll_ts = clock]
                 [] OTHER ->
                      [@ EXCEPT !.consecutive_failures = @ + 1,
                                !.last_poll_ts = clock]]
        /\ calls' = IF f.result = "ok" THEN r.calls ELSE <<>>
        /\ clock' = done
        /\ last_poll' = [addr |-> a,
                         outcome |-> IF f.result = "error" THEN "failed" ELSE f.result,
                         payload |-> IF f.result = "ok" THEN positions ELSE <<>>,
                         was_initialized |-> addresses[a].is_initialized,
                         old_map |-> addresses[a].last_positions,
                         answers |-> answers,
                         attempts |-> f.attempts,
                         waits |-> f.waits,
                         failures_before |-> addresses[a].consecutive_failures]
        /\ UNCHANGED <<poll_log, pvars, inflight, bvars, tvars, xvars, yvars>>

\* the answers of the five possible attempts; what follows the first answer
\* that is not a failure is never requested
Scripts ==
    {answers \in [1..MAX_RETRIES -> Answers] :
        \A i, j \in 1..MAX_RETRIES :
            (i < j /\ answers[i] # "error") => answers[j] = "ok"}

RetryNext ==
    \E a \in Addrs, answers \in Scripts, positions \in HealthPayloads :
        PollAttempts(a, answers, positions)

\* the callbacks of one poll, `raising` being the positions (in invocation
\* order) of those that raise an Exception
Invoke_StopsAtRaise(cbs, raising) ==
    LET stop == IF raising = {} THEN Len(cbs)
                ELSE CHOOSE i \in raising : \A j \in raising : i <= j
    IN  [i \in 1..stop |->
            [kind |-> cbs[i].kind, token |-> cbs[i].token, pos |-> cbs[i].pos,
             raised |-> i \in raising]]

Invoke(cbs, raising) ==
    [i \in 1..Len(cbs) |->
        [kind |-> cbs[i].kind, token |-> cbs[i].token, pos |-> cbs[i].pos,
         raised |-> i \in raising]]

\* _poll_address, the fetch succeeded and some callbacks raise
PollRaising(a, positions, raising) ==
    LET r == ProcessPositions(addresses[a], positions)
    IN  /\ raising \subseteq 1..Len(r.calls)
        /\ addresses' = [addresses EXCEPT ![a] =
                             [r.cfg EXCEPT !.consecutive_failures = 0,
                                           !.last_poll_ts = clock]]
        /\ calls' = Invoke(r.calls, raising)
        /\ last_poll' = PollRecord(a, "ok", positions)
        /\ UNCHANGED <<clock, poll_log, pvars, inflight, bvars, tvars, xvars, yvars>>

\* payloads of up to three positions over three token ids
CallbackPayloads == SeqsUpTo([asset : 1..3, curPrice : PollPrices], 3)

CallbacksNext ==
    \/ \E a \in Addrs, positions \in CallbackPayloads :
          \E raising \in SUBSET (1..Len(ProcessPositions(addresses[a], positions).calls)) :
              PollRaising(a, positions, raising)
    \/ \E a \in Addrs : PollFailure(a)

HealthNext ==
    \/ \E a \in Addrs, positions \in HealthPayloads : LoopSuccess(a, positions)
    \/ \E a \in Addrs : LoopError(a)
    \/ \E a \in Addrs : LoopRateLimited(a)
    \/ Tick

(***************************************************************************)
(* Paper portfolios: mirror PortfolioManager and DataFeedPortfolio         *)
(***************************************************************************)
SLOTS == 40
SLOT_SIZE_USDC == 500
STARTING_BALANCE == 20000
RESOLVED_CAP == 50
ShareDecimals == 4

\* money: <<usdc, frac>> is usdc + frac * 10^-5 USDC, 0 <= frac < Unit
Unit == 10 ^ (ShareDecimals + 1)
Usdc(n) == <<n, 0>>
MNorm(u, f) == <<u + (f \div Unit), f % Unit>>
MAdd(a, b) == MNorm(a[1] + b[1], a[2] + b[2])
MAddMicro(a, m) == MNorm(a[1], a[2] + m)
MLess(a, b) == a[1] < b[1] \/ (a[1] = b[1] /\ a[2] < b[2])
MLeq(a, b) == a = b \/ MLess(a, b)

\* prices in tenths; Absent is a key that the dict does not hold (or None)
Absent == -1
DEFAULT_PRICE == 5

Focus == 1..MaxFocus
FillerPrice == DEFAULT_PRICE
Filler(i) == MaxFocus + i
IsFiller(t) == t > MaxFocus

\* round(x, 4) of a quotient a / b, in units of 10^-4
RoundDiv(a, b) == (2 * a + b) \div (2 * b)

\* shares = SLOT_SIZE_USDC / entry_price if entry_price > 0 else 0.0 ; round(shares, 4)
Shares(entry_price) ==
    IF entry_price > 0
    THEN RoundDiv(SLOT_SIZE_USDC * 10 * (10 ^ ShareDecimals), entry_price)
    ELSE 0

\* MirrorPosition / DataFeedPosition
CreatePosition(token_id, entry_price) ==
    [token_id      |-> token_id,
     entry_price   |-> entry_price,
     current_price |-> entry_price,
     shares        |-> Shares(entry_price),
     usdc_deployed |-> SLOT_SIZE_USDC]

\* (price - entry_price) * shares, in 10^-5 USDC
PnlAt(position, price) == (price - position.entry_price) * position.shares

UnrealizedPnl(position) == PnlAt(position, position.current_price)

\* "WIN" if pnl > 0.01 else ("LOSS" if pnl < -0.01 else "PUSH")
Result(pnl) ==
    IF pnl > Unit \div 100 THEN "WIN"
    ELSE IF pnl < -(Unit \div 100) THEN "LOSS" ELSE "PUSH"

Open(p) == DOMAIN p.positions
Queued(p) == {p.queue[i].token_id : i \in DOMAIN p.queue}
Remove(f, k) == [x \in (DOMAIN f) \ {k} |-> f[x]]
Put(f, k, v) == (k :> v) @@ f

NewPortfolio(starting_balance) ==
    [starting_balance |-> starting_balance,
     balance          |-> Usdc(starting_balance),
     realized_pnl     |-> Usdc(0),
     positions        |-> <<>>,
     queue            |-> <<>>,
     resolved         |-> <<>>]

NewStats == [trades_mirrored |-> 0, wins |-> 0, losses |-> 0, total_pnl_usdc |-> Usdc(0)]

\* token_id = pos_data.get("asset") or pos_data.get("token_id", "")
TokenOf(pos_data) == pos_data.asset

\* float(pos_data.get("curPrice") or pos_data.get("price", default))
PriceOf(pos_data, default) ==
    IF pos_data.curPrice # Absent /\ pos_data.curPrice # 0 THEN pos_data.curPrice
    ELSE IF pos_data.price # Absent THEN pos_data.price
    ELSE default

\* (mutation: only the slot count decides)
MustQueue_IgnoreBalance(p) ==
    Cardinality(Open(p)) >= SLOTS

\* len(self._positions) >= SLOTS or self._balance < SLOT_SIZE_USDC
MustQueue(p) ==
    Cardinality(Open(p)) >= SLOTS \/ MLess(p.balance, Usdc(SLOT_SIZE_USDC))

OpenSlot(p, token_id, entry_price) ==
    [p EXCEPT !.positions = Put(@, token_id, CreatePosition(token_id, entry_price)),
              !.balance   = MAdd(@, Usdc(-SLOT_SIZE_USDC))]

\* (mutation: the newest queued trade is taken first)
RECURSIVE ProcessQueue_Lifo(_)
ProcessQueue_Lifo(p) ==
    IF p.queue # <<>> /\ Cardinality(Open(p)) < SLOTS
                     /\ ~MLess(p.balance, Usdc(SLOT_SIZE_USDC))
    THEN LET qt == p.queue[Len(p.queue)]
         IN ProcessQueue_Lifo(OpenSlot([p EXCEPT !.queue = SubSeq(@, 1, Len(@) - 1)],
                                       qt.token_id, qt.entry_price))
    ELSE p

\* PortfolioManager._process_queue
RECURSIVE ProcessQueue(_)
ProcessQueue(p) ==
    IF p.queue # <<>> /\ Cardinality(Open(p)) < SLOTS
                     /\ ~MLess(p.balance, Usdc(SLOT_SIZE_USDC))
    THEN LET qt == Head(p.queue)
         IN ProcessQueue(OpenSlot([p EXCEPT !.queue = Tail(@)],
                                  qt.token_id, qt.entry_price))
    ELSE p

\* (mutation: the queue is not searched for the token)
MirrorOpenPosition_NoQueueCheck(p, st, pos_data) ==
    LET token_id    == TokenOf(pos_data)
        entry_price == PriceOf(pos_data, DEFAULT_PRICE)
    IN IF token_id = NoAsset THEN [p |-> p, stats |-> st, ret |-> "none"]
       ELSE IF token_id \in Open(p) THEN [p |-> p, stats |-> st, ret |-> "none"]
       ELSE IF MustQueue(p)
       THEN [p     |-> [p EXCEPT !.queue = Append(@, [token_id    |-> token_id,
                                                     entry_price |-> entry_price])],
             stats |-> st,
             ret   |-> "none"]
       ELSE [p     |-> OpenSlot(p, token_id, entry_price),
             stats |-> [st EXCEPT !.trades_mirrored = @ + 1],
             ret   |-> "position"]

\* PortfolioManager.open_position: the portfolio and cfg.stats after the call,
\* and what it returned
MirrorOpenPosition(p, st, pos_data) ==
    LET token_id    == TokenOf(pos_data)
        entry_price == PriceOf(pos_data, DEFAULT_PRICE)
    IN IF token_id = NoAsset THEN [p |-> p, stats |-> st, ret |-> "none"]
       ELSE IF token_id \in Open(p) THEN [p |-> p, stats |-> st, ret |-> "none"]
       ELSE IF token_id \in Queued(p) THEN [p |-> p, stats |-> st, ret |-> "none"]
       ELSE IF MustQueue(p)
       THEN [p     |-> [p EXCEPT !.queue = Append(@, [token_id    |-> token_id,
                                                     entry_price |-> entry_price])],
             stats |-> st,
             ret   |-> "none"]
       ELSE [p     |-> OpenSlot(p, token_id, entry_price),
             stats |-> [st EXCEPT !.trades_mirrored = @ + 1],
             ret   |-> "position"]

\* DataFeedPortfolio.open_position
DFOpenPosition(p, token_id, market_price) ==
    IF token_id = NoAsset THEN [p |-> p, ret |-> "none"]
    ELSE IF token_id \in Open(p) THEN [p |-> p, ret |-> "none"]
    ELSE IF MustQueue(p) THEN [p |-> p, ret |-> "none"]
    ELSE [p |-> OpenSlot(p, token_id, market_price), ret |-> "position"]

ResolvedTrade(position, exit_price, pnl, t) ==
    [entry_price |-> position.entry_price,
     exit_price  |-> exit_price,
     pnl_usdc    |-> RoundDiv(pnl, 10),
     result      |-> Result(pnl),
     resolved_at |-> t]

\* (mutation: realized P&L is not accumulated)
Settle_NoRealized(p, token_id, exit_price, t) ==
    LET position == p.positions[token_id]
        pnl      == PnlAt(position, exit_price)
    IN [p EXCEPT !.positions = Remove(@, token_id),
                 !.balance   = MAddMicro(MAdd(@, Usdc(SLOT_SIZE_USDC)), pnl),
                 !.resolved  = <<ResolvedTrade(position, exit_price, pnl, t)>> \o @]

\* (mutation: the slot's 500 USDC are not returned to the balance)
Settle_NoRefund(p, token_id, exit_price, t) ==
    LET position == p.positions[token_id]
        pnl      == PnlAt(position, exit_price)
    IN [p EXCEPT !.positions    = Remove(@, token_id),
                 !.balance      = MAddMicro(@, pnl),
                 !.realized_pnl = MAddMicro(@, pnl),
                 !.resolved     = <<ResolvedTrade(position, exit_price, pnl, t)>> \o @]

\* the bookkeeping shared by both close_position_by_token methods, up to and
\* including self._resolved.insert(0, resolved)
Settle(p, token_id, exit_price, t) ==
    LET position == p.positions[token_id]
        pnl      == PnlAt(position, exit_price)
    IN [p EXCEPT !.positions    = Remove(@, token_id),
                 !.balance      = MAddMicro(MAdd(@, Usdc(SLOT_SIZE_USDC)), pnl),
                 !.realized_pnl = MAddMicro(@, pnl),
                 !.resolved     = <<ResolvedTrade(position, exit_price, pnl, t)>> \o @]

\* cfg.stats update of PortfolioManager.close_position_by_token
CloseStats(st, pnl) ==
    [st EXCEPT !.total_pnl_usdc = MAddMicro(@, pnl),
               !.wins   = IF Result(pnl) = "WIN" THEN @ + 1 ELSE @,
               !.losses = IF Result(pnl) = "LOSS" THEN @ + 1 ELSE @]

\* (mutation: a close without an open position cancels the queued trade)
MirrorClosePositionByToken_DropsQueued(p, st, pos_data, t) ==
    LET token_id == TokenOf(pos_data)
    IN IF token_id \notin Open(p)
       THEN [p     |-> [p EXCEPT !.queue = SelectSeq(@, LAMBDA q : q.token_id # token_id)],
             stats |-> st,
             ret   |-> "none"]
       ELSE LET position   == p.positions[token_id]
                exit_price == PriceOf(pos_data, position.entry_price)
            IN [p     |-> ProcessQueue(Settle(p, token_id, exit_price, t)),
                stats |-> CloseStats(st, PnlAt(position, exit_price)),
                ret   |-> "resolved"]

\* PortfolioManager.close_position_by_token
MirrorClosePositionByToken(p, st, pos_data, t) ==
    LET token_id == TokenOf(pos_data)
    IN IF token_id \notin Open(p) THEN [p |-> p, stats |-> st, ret |-> "none"]
       ELSE LET position   == p.positions[token_id]
                exit_price == PriceOf(pos_data, position.entry_price)
            IN [p     |-> ProcessQueue(Settle(p, token_id, exit_price, t)),
                stats |-> CloseStats(st, PnlAt(position, exit_price)),
                ret   |-> "resolved"]

\* if len(self._resolved) > 50: self._resolved = self._resolved[:50]
Truncate(resolved) ==
    IF Len(resolved) > RESOLVED_CAP THEN SubSeq(resolved, 1, RESOLVED_CAP) ELSE resolved

\* DataFeedPortfolio.close_position_by_token
DFClosePositionByToken(p, token_id, exit_price, t) ==
    IF token_id \notin Open(p) THEN [p |-> p, ret |-> "none"]
    ELSE [p   |-> [Settle(p, token_id, exit_price, t) EXCEPT !.resolved = Truncate(@)],
          ret |-> "resolved"]

\* _update_market_prices for one market of the Gamma response
UpdateMarketPrices(p, market) ==
    IF market.bestAsk = Absent /\ market.bestBid = Absent THEN p
    ELSE LET price == IF market.bestAsk # Absent /\ market.bestAsk # 0
                      THEN market.bestAsk ELSE market.bestBid
         IN IF price = Absent THEN p   \* float(None) raises, swallowed by except
            ELSE [p EXCEPT !.positions =
                     [t \in DOMAIN @ |-> IF t \in market.clobTokenIds
                                         THEN [@[t] EXCEPT !.current_price = price]
                                         ELSE @[t]]]

\* reset
ResetPortfolio(p) == NewPortfolio(p.starting_balance)



\* Observation of a call: the operation, the token id it named and what it
\* returned; for an open_position that opened a position also the balance and
\* realized P&L it started from, for a close whether it directly follows the
\* open_position that opened the same token.
NoCall == [op |-> "none", token |-> NoAsset, ret |-> "none",
           balance_before |-> Usdc(0), realized_before |-> Usdc(0), after_open |-> FALSE]

Called(op, t, r) ==
    [NoCall EXCEPT !.op = op, !.token = t, !.ret = r,
                   !.balance_before  = IF op = "open" /\ r = "position"
                                       THEN portfolio.balance ELSE Usdc(0),
                   !.realized_before = IF op = "open" /\ r = "position"
                                       THEN portfolio.realized_pnl ELSE Usdc(0),
                   !.after_open      = /\ op = "close" /\ r = "resolved"
                                       /\ last_call.op = "open"
                                       /\ last_call.ret = "position"
                                       /\ last_call.token = t]

\* the scenarios: an idle portfolio, or one the environment first fills with
\* SLOTS filler tokens bought at FillerPrice, or with one more that overflows
Prefills == {0, SLOTS, SLOTS + 1}

PrefillDone == prefill.done = prefill.target

\* position dicts handed to the mirror portfolio: (curPrice, price) keys
PosData(t, k) == [asset |-> t, curPrice |-> k[1], price |-> k[2]]
OpenKeys == {<<3, Absent>>, <<0, Absent>>}
CloseKeys == {<<10, Absent>>, <<0, Absent>>, <<0, 0>>}
\* market_price of an opportunity, exit_price of a resolved market (datafeed)
OpenPrices == {3, DEFAULT_PRICE}
ClosePrices(t) ==
    {0, 10} \cup (IF t \in Open(portfolio) THEN {portfolio.positions[t].entry_price} ELSE {})

\* the token ids a caller may name: the focus tokens and one open filler
\* (fillers are interchangeable: same price, never repriced)
OpenFillers == {t \in Open(portfolio) : IsFiller(t)}
Nameable ==
    Focus \cup (IF OpenFillers = {} THEN {}
                ELSE {CHOOSE t \in OpenFillers : \A u \in OpenFillers : t <= u})

PortfolioInit ==
    /\ kind \in {"mirror", "datafeed"}
    /\ portfolio = NewPortfolio(STARTING_BALANCE)
    /\ stats = NewStats
    /\ now = 0
    /\ prefill \in [target : Prefills, done : {0}]
    /\ last_call = NoCall

\* the environment's opening calls: open_position for the next filler token
Prefill ==
    /\ prefill.done < prefill.target
    /\ LET t == Filler(prefill.done + 1)
       IN IF kind = "mirror"
          THEN LET r == MirrorOpenPosition(portfolio, stats,
                                           PosData(t, <<FillerPrice, Absent>>))
               IN portfolio' = r.p /\ stats' = r.stats
                  /\ last_call' = Called("open", t, r.ret)
          ELSE LET r == DFOpenPosition(portfolio, t, FillerPrice)
               IN portfolio' = r.p /\ stats' = stats
                  /\ last_call' = Called("open", t, r.ret)
    /\ prefill' = [prefill EXCEPT !.done = @ + 1]
    /\ UNCHANGED <<kind, now>>
    /\ UNCHANGED <<mvars, inflight, bvars, tvars, xvars, yvars>>

MirrorOpen(t, k) ==
    /\ kind = "mirror" /\ PrefillDone
    /\ LET r == MirrorOpenPosition(portfolio, stats, PosData(t, k))
       IN portfolio' = r.p /\ stats' = r.stats /\ last_call' = Called("open", t, r.ret)
    /\ UNCHANGED <<kind, now, prefill>>
    /\ UNCHANGED <<mvars, inflight, bvars, tvars, xvars, yvars>>

DFOpen(t, market_price) ==
    /\ kind = "datafeed" /\ PrefillDone
    /\ LET r == DFOpenPosition(portfolio, t, market_price)
       IN portfolio' = r.p /\ last_call' = Called("open", t, r.ret)
    /\ UNCHANGED <<kind, stats, now, prefill>>
    /\ UNCHANGED <<mvars, inflight, bvars, tvars, xvars, yvars>>

MirrorClose(t, k) ==
    /\ kind = "mirror" /\ PrefillDone
    /\ LET r == MirrorClosePositionByToken(portfolio, stats, PosData(t, k), now + 1)
       IN /\ portfolio' = r.p /\ stats' = r.stats /\ last_call' = Called("close", t, r.ret)
          /\ now' = IF r.ret = "resolved" THEN now + 1 ELSE now
    /\ UNCHANGED <<kind, prefill>>
    /\ UNCHANGED <<mvars, inflight, bvars, tvars, xvars, yvars>>

DFClose(t, exit_price) ==
    /\ kind = "datafeed" /\ PrefillDone
    /\ LET r == DFClosePositionByToken(portfolio, t, exit_price, now + 1)
       IN /\ portfolio' = r.p /\ last_call' = Called("close", t, r.ret)
          /\ now' = IF r.ret = "resolved" THEN now + 1 ELSE now
    /\ UNCHANGED <<kind, stats, prefill>>
    /\ UNCHANGED <<mvars, inflight, bvars, tvars, xvars, yvars>>

\* update_prices with a Gamma response of one market (an HTTP failure or an
\* empty response leaves the portfolio as it is)
Quotes == {<<Absent, Absent>>, <<0, Absent>>, <<3, Absent>>, <<0, 3>>}
Markets == {[clobTokenIds |-> S, bestAsk |-> q[1], bestBid |-> q[2]] :
                S \in {{1}}, q \in Quotes}

UpdatePrices(market) ==
    /\ PrefillDone
    /\ Open(portfolio) # {}
    /\ portfolio' = UpdateMarketPrices(portfolio, market)
    /\ last_call' = Called("update_prices", NoAsset, "none")
    /\ UNCHANGED <<kind, stats, now, prefill>>
    /\ UNCHANGED <<mvars, inflight, bvars, tvars, xvars, yvars>>

Reset ==
    /\ PrefillDone
    /\ portfolio' = ResetPortfolio(portfolio)
    /\ now' = now + 1
    /\ last_call' = Called("reset", NoAsset, "none")
    /\ UNCHANGED <<kind, stats, prefill>>
    /\ UNCHANGED <<mvars, inflight, bvars, tvars, xvars, yvars>>

\* the clock stops the exploration: a call that would tick it past `limit`
\* is not explored
Before(limit, t) == t \in Open(portfolio) => now < limit

PortfolioNext ==
    \/ Prefill
    \/ \E t \in Focus, k \in OpenKeys : MirrorOpen(t, k)
    \/ \E t \in Focus, c \in OpenPrices : DFOpen(t, c)
    \/ \E t \in Nameable, k \in CloseKeys : Before(MaxTime, t) /\ MirrorClose(t, k)
    \/ \E t \in Nameable : \E c \in ClosePrices(t) : Before(MaxTime, t) /\ DFClose(t, c)
    \/ MirrorOpen(NoAsset, <<3, Absent>>) \/ MirrorClose(NoAsset, <<0, 0>>)
    \/ DFOpen(NoAsset, 3) \/ DFClose(NoAsset, 0)
    \/ \E market \in Markets : UpdatePrices(market)
    \/ now < MaxTime /\ Reset

\* one token opened and closed at its entry price, over and over
HistoryNext ==
    \/ MirrorOpen(1, <<0, Absent>>)
    \/ DFOpen(1, DEFAULT_PRICE)
    \/ Before(MaxHistory, 1) /\ MirrorClose(1, <<0, Absent>>)
    \/ Before(MaxHistory, 1) /\ DFClose(1, DEFAULT_PRICE)

(***************************************************************************)
(* The mirror portfolio under its three threads: the address-poll thread   *)
(* (open_position, close_position_by_token), the price-update thread       *)
(* (update_prices) and the dashboard request (reset).  PortfolioManager    *)
(* holds no lock, so another thread may run between two statements of      *)
(* close_position_by_token.                                                *)
(***************************************************************************)
Idle == [pc |-> "idle"]

ThreadsInit == inflight = Idle

\* close_position_by_token up to `position = self._positions.pop(token_id, None)`
ClosePop(p, token_id) == [p EXCEPT !.positions = Remove(@, token_id)]

\* close_position_by_token from the computation of exit_price to
\* self._resolved.insert(0, resolved), on the position that was popped
CloseCredit(p, position, exit_price, t) ==
    LET pnl == PnlAt(position, exit_price)
    IN [p EXCEPT !.balance      = MAddMicro(MAdd(@, Usdc(SLOT_SIZE_USDC)), pnl),
                 !.realized_pnl = MAddMicro(@, pnl),
                 !.resolved     = <<ResolvedTrade(position, exit_price, pnl, t)>> \o @]

\* poll thread: open_position, run without interruption
ThreadOpen(t, k) == inflight = Idle /\ MirrorOpen(t, k)

\* poll thread: close_position_by_token up to the pop (and its early return)
CloseBegin(t, k) ==
    /\ kind = "mirror" /\ PrefillDone /\ inflight = Idle
    /\ IF t \in Open(portfolio)
       THEN /\ inflight' = [pc |-> "popped", pos_data |-> PosData(t, k),
                            position |-> portfolio.positions[t]]
            /\ portfolio' = ClosePop(portfolio, t)
            /\ UNCHANGED last_call
       ELSE /\ last_call' = Called("close", t, "none")
            /\ UNCHANGED <<inflight, portfolio>>
    /\ UNCHANGED <<kind, stats, now, prefill, mvars, bvars, tvars, xvars, yvars>>

\* poll thread: the rest of close_position_by_token, _process_queue included
CloseFinish ==
    /\ inflight # Idle
    /\ LET position   == inflight.position
           exit_price == PriceOf(inflight.pos_data, position.entry_price)
       IN /\ portfolio' = ProcessQueue(CloseCredit(portfolio, position, exit_price, now + 1))
          /\ stats' = CloseStats(stats, PnlAt(position, exit_price))
          /\ last_call' = Called("close", position.token_id, "resolved")
    /\ now' = now + 1
    /\ inflight' = Idle
    /\ UNCHANGED <<kind, prefill, mvars, bvars, tvars, xvars, yvars>>

ThreadsNext ==
    \/ \E t \in Focus, k \in OpenKeys : ThreadOpen(t, k)
    \/ \E t \in Focus, k \in CloseKeys : now < MaxTime /\ CloseBegin(t, k)
    \/ CloseFinish
    \/ \E market \in Markets : UpdatePrices(market)
    \/ now < MaxTime /\ Reset

(***************************************************************************)
(* MirrorBot.reset against the poll thread.  _process_positions runs       *)
(* without the monitor's lock, so the dashboard thread's reset may run     *)
(* between any two of its statements; each callback runs to its return.    *)
(***************************************************************************)
MaxRacePolls == 3

MaxResets == 1

NewPoller ==
    [pc |-> "idle", addr |-> "none", new_map |-> <<>>, pending |-> <<>>,
     after_reset |-> FALSE, polls |-> 0,
     reset_pc |-> "idle", resets |-> 0, reset_returned |-> FALSE,
     baselined |-> {}, first_done |-> [a \in Addrs |-> "none"]]

PollerInit == poller = NewPoller

\* _poll_address up to the test of cfg.is_initialized (lines 139-238)
ProcBegin(a, positions) ==
    /\ poller.pc = "idle" /\ poller.polls < MaxRacePolls
    /\ addresses' = [addresses EXCEPT ![a].last_poll_ts = clock,
                                      ![a].last_poll_count = Len(NewMap(positions))]
    /\ poller' = [poller EXCEPT
                     !.pc = IF addresses[a].is_initialized THEN "diff" ELSE "baseline",
                     !.addr = a, !.new_map = NewMap(positions), !.pending = <<>>,
                     !.after_reset = poller.reset_returned, !.polls = @ + 1]
    /\ UNCHANGED <<calls, last_poll, clock, poll_log, pvars, inflight, bvars, tvars, xvars,
                   cycle, arb, football>>

\* how the first poll begun after the reset ended
FirstDone(how) ==
    IF poller.after_reset /\ poller.first_done[poller.addr] = "none"
    THEN [poller.first_done EXCEPT ![poller.addr] = how]
    ELSE poller.first_done

\* cfg.last_positions = new_map (line 239)
BaselineMap ==
    /\ poller.pc = "baseline"
    /\ addresses' = [addresses EXCEPT ![poller.addr].last_positions = poller.new_map]
    /\ poller' = [poller EXCEPT !.pc = "baseline_flag"]
    /\ UNCHANGED <<calls, last_poll, clock, poll_log, pvars, inflight, bvars, tvars, xvars,
                   cycle, arb, football>>

\* cfg.is_initialized = True to the return (lines 240-244), then
\* _poll_address lines 143-145
BaselineFlag ==
    /\ poller.pc = "baseline_flag"
    /\ addresses' = [addresses EXCEPT ![poller.addr].is_initialized = TRUE,
                                      ![poller.addr].last_poll_new = 0,
                                      ![poller.addr].last_poll_closed = 0,
                                      ![poller.addr].consecutive_failures = 0]
    /\ poller' = [poller EXCEPT
                     !.pc = "idle", !.first_done = FirstDone("baseline"),
                     !.baselined = IF poller.after_reset THEN @ \cup {poller.addr} ELSE @]
    /\ UNCHANGED <<calls, last_poll, clock, poll_log, pvars, inflight, bvars, tvars, xvars,
                   cycle, arb, football>>

\* old_map = cfg.last_positions and the two id lists (lines 246-254)
ProcDiff ==
    /\ poller.pc = "diff"
    /\ LET old_map == addresses[poller.addr].last_positions IN
       /\ addresses' = [addresses EXCEPT
              ![poller.addr].last_poll_new = Len(OpenedIds(poller.new_map, old_map)),
              ![poller.addr].last_poll_closed = Len(ClosedIds(poller.new_map, old_map))]
       /\ poller' = [poller EXCEPT !.pc = "callbacks",
                                   !.pending = DiffCalls(poller.new_map, old_map)]
    /\ UNCHANGED <<calls, last_poll, clock, poll_log, pvars, inflight, bvars, tvars, xvars,
                   cycle, arb, football>>

\* one pass of a callback loop (lines 256-275): MirrorBot._on_opened or
\* _on_closed on the portfolio
ProcCallback ==
    /\ poller.pc = "callbacks" /\ poller.pending # <<>>
    /\ LET cb == Head(poller.pending)
           r  == IF cb.kind = "opened"
                 THEN MirrorOpenPosition(portfolio, stats, cb.pos)
                 ELSE MirrorClosePositionByToken(portfolio, stats, cb.pos, now + 1)
       IN /\ portfolio' = r.p /\ stats' = r.stats
          /\ last_call' = Called(IF cb.kind = "opened" THEN "open" ELSE "close",
                                 cb.token, r.ret)
          /\ now' = IF r.ret = "resolved" THEN now + 1 ELSE now
    /\ poller' = [poller EXCEPT !.pending = Tail(@)]
    /\ UNCHANGED <<kind, prefill, mvars, inflight, bvars, tvars, xvars, cycle, arb, football>>

\* cfg.last_positions = new_map (line 277), then _poll_address lines 143-145
ProcEnd ==
    /\ poller.pc = "callbacks" /\ poller.pending = <<>>
    /\ addresses' = [addresses EXCEPT ![poller.addr].last_positions = poller.new_map,
                                      ![poller.addr].consecutive_failures = 0]
    /\ poller' = [poller EXCEPT !.pc = "idle", !.first_done = FirstDone("diff")]
    /\ UNCHANGED <<calls, last_poll, clock, poll_log, pvars, inflight, bvars, tvars, xvars,
                   cycle, arb, football>>

\* MirrorBot.reset: self.portfolio.reset()
ResetBegin ==
    /\ poller.reset_pc = "idle" /\ poller.resets < MaxResets
    /\ portfolio' = ResetPortfolio(portfolio)
    /\ last_call' = Called("reset", NoAsset, "none")
    /\ poller' = [poller EXCEPT !.reset_pc = "portfolio_reset", !.resets = @ + 1]
    /\ UNCHANGED <<kind, stats, now, prefill, mvars, inflight, bvars, tvars, xvars,
                   cycle, arb, football>>

\* MirrorBot.reset: self.monitor.reset_all(), to the return of reset
ResetFinish ==
    /\ poller.reset_pc = "portfolio_reset"
    /\ addresses' = [a \in Addrs |-> [addresses[a] EXCEPT !.is_initialized = FALSE,
                                                           !.last_positions = <<>>]]
    /\ poller' = [poller EXCEPT !.reset_pc = "idle", !.reset_returned = TRUE,
                                !.baselined = {},
                                !.first_done = [a \in Addrs |-> "none"]]
    /\ UNCHANGED <<calls, last_poll, clock, poll_log, pvars, inflight, bvars, tvars, xvars,
                   cycle, arb, football>>

ResetRaceNext ==
    \/ \E a \in Addrs, positions \in Payloads : ProcBegin(a, positions)
    \/ BaselineMap
    \/ BaselineFlag
    \/ ProcDiff
    \/ ProcCallback
    \/ ProcEnd
    \/ ResetBegin
    \/ ResetFinish

(***************************************************************************)
(* EventBus                                                                *)
(***************************************************************************)
HISTORY_SIZE == 300

\* bot threads that publish concurrently, and WebSocket connections
Producers == 1..2
Handles == 1..2

\* event = {"type": ..., "data": ..., "ts": ...}: the seq-th event of producer `by`
Event(by, seq) == [by |-> by, seq |-> seq]

\* EventBus.__init__; set_loop has not been called
NewBus ==
    [history      |-> <<>>,
     subscribers  |-> <<>>,
     queues       |-> [h \in Handles |-> <<>>],
     loop_running |-> FALSE]

\* (mutation: a full history refuses the new event)
HistoryAppend_KeepOldest(history, event) ==
    IF Len(history) >= HISTORY_SIZE THEN history ELSE Append(history, event)

\* self._history.append(event) on a deque(maxlen=history_size)
HistoryAppend(history, event) ==
    IF Len(history) >= HISTORY_SIZE THEN Append(Tail(history), event)
    ELSE Append(history, event)

\* publish, the part under the lock: the bus afterwards
PublishLocked(b, event) == [b EXCEPT !.history = HistoryAppend(@, event)]

\* publish, after the lock: loop.call_soon_threadsafe(q.put_nowait, event) for
\* each q of the copied subscriber list.  The loop runs its callbacks in the
\* order they were scheduled, and the queues are unbounded, so the event joins
\* the tail of each queue in scheduling order.
PublishSchedule(b, subs, event) ==
    IF b.loop_running
    THEN [b EXCEPT !.queues = [h \in Handles |->
                                  IF \E i \in DOMAIN subs : subs[i] = h
                                  THEN Append(@[h], event) ELSE @[h]]]
    ELSE b

\* subscribe: a new queue, appended to the subscriber list
BusSubscribe(b, h) == [b EXCEPT !.subscribers = Append(@, h), !.queues[h] = <<>>]

\* list.remove(q): the first occurrence
RECURSIVE RemoveFirst(_, _)
RemoveFirst(seq, h) ==
    IF seq = <<>> THEN <<>>
    ELSE IF Head(seq) = h THEN Tail(seq)
    ELSE <<Head(seq)>> \o RemoveFirst(Tail(seq), h)

\* (mutation: ValueError is answered by dropping the newest subscriber)
BusUnsubscribe_PopOnMiss(b, h) ==
    IF \E i \in DOMAIN b.subscribers : b.subscribers[i] = h
    THEN [b EXCEPT !.subscribers = RemoveFirst(@, h)]
    ELSE [b EXCEPT !.subscribers = SubSeq(@, 1, Len(@) - 1)]

\* unsubscribe: remove q, ValueError swallowed
BusUnsubscribe(b, h) ==
    IF \E i \in DOMAIN b.subscribers : b.subscribers[i] = h
    THEN [b EXCEPT !.subscribers = RemoveFirst(@, h)]
    ELSE b

\* get_history
GetHistory(b) == b.history

\* producers: events published so far and the publish in progress;
\* handlers: the WebSocket handler of each handle; log: every event in the
\* order it was appended under the lock
NewClients ==
    [producers |-> [p \in Producers |-> [pc |-> "idle", count |-> 0, subs |-> <<>>]],
     handlers  |-> [h \in Handles |-> [pc |-> "detached", replayed |-> <<>>, live |-> <<>>]],
     log       |-> <<>>]

BusInit == bus = NewBus /\ clients = NewClients

\* FastAPI startup: set_loop with the running loop
SetLoop ==
    /\ ~bus.loop_running
    /\ bus' = [bus EXCEPT !.loop_running = TRUE]
    /\ UNCHANGED <<clients, mvars, pvars, inflight, tvars, xvars, yvars>>

\* a bot thread enters publish and leaves the locked section
PublishAppend(p, limit) ==
    LET me    == clients.producers[p]
        event == Event(p, me.count + 1)
    IN /\ me.pc = "idle" /\ Len(clients.log) < limit
       /\ bus' = PublishLocked(bus, event)
       /\ clients' = [clients EXCEPT
                         !.producers[p] = [pc |-> "appended", count |-> me.count + 1,
                                           subs |-> bus.subscribers],
                         !.log = Append(@, event)]
       /\ UNCHANGED <<mvars, pvars, inflight, tvars, xvars, yvars>>

\* the same thread schedules the event for the subscribers it copied
PublishDeliver(p) ==
    LET me == clients.producers[p]
    IN /\ me.pc = "appended"
       /\ bus' = PublishSchedule(bus, me.subs, Event(p, me.count))
       /\ clients' = [clients EXCEPT !.producers[p] = [me EXCEPT !.pc = "idle", !.subs = <<>>]]
       /\ UNCHANGED <<mvars, pvars, inflight, tvars, xvars, yvars>>

\* websocket_endpoint: queue = _bus.subscribe()
Subscribe(h) ==
    /\ clients.handlers[h].pc = "detached"
    /\ bus' = BusSubscribe(bus, h)
    /\ clients' = [clients EXCEPT !.handlers[h].pc = "subscribed"]
    /\ UNCHANGED <<mvars, pvars, inflight, tvars, xvars, yvars>>

\* websocket_endpoint: for event in _bus.get_history(): await ws.send_json(event)
Replay(h) ==
    /\ clients.handlers[h].pc = "subscribed"
    /\ clients' = [clients EXCEPT !.handlers[h].pc = "streaming",
                                  !.handlers[h].replayed = GetHistory(bus)]
    /\ UNCHANGED <<bus, mvars, pvars, inflight, tvars, xvars, yvars>>

\* websocket_endpoint: event = await queue.get(); await ws.send_json(event)
Consume(h) ==
    /\ clients.handlers[h].pc = "streaming"
    /\ bus.queues[h] # <<>>
    /\ clients' = [clients EXCEPT !.handlers[h].live = Append(@, Head(bus.queues[h]))]
    /\ bus' = [bus EXCEPT !.queues[h] = Tail(@)]
    /\ UNCHANGED <<mvars, pvars, inflight, tvars, xvars, yvars>>

\* _bus.unsubscribe(queue): the handler's finally block, or any caller with
\* a queue that is not (or no longer) subscribed
Unsubscribe(h) ==
    /\ bus' = BusUnsubscribe(bus, h)
    /\ clients' = [clients EXCEPT !.handlers[h].pc =
                       IF @ = "detached" THEN "detached" ELSE "closed"]
    /\ UNCHANGED <<mvars, pvars, inflight, tvars, xvars, yvars>>

BusNext ==
    \/ SetLoop
    \/ \E p \in Producers : PublishAppend(p, MaxPublish)
    \/ \E p \in Producers : PublishDeliver(p)
    \/ \E h \in Handles : Subscribe(h)
    \/ \E h \in Handles : Replay(h)
    \/ \E h \in Handles : Consume(h)
    \/ \E h \in Handles : Unsubscribe(h)

\* one producer filling the history before the server has started
RingNext ==
    \/ PublishAppend(1, MaxRing)
    \/ PublishDeliver(1)
    \/ Subscribe(1)
    \/ Unsubscribe(1)

(***************************************************************************)
(* PaperTrader (src/bot/paper_trader.py), built as main.py builds it:      *)
(* without an event bus.  Amounts are integers in cents of a USDC, prices  *)
(* in hundredths, shares in hundredths of a share; with the configuration  *)
(* and the prices below every division of the fill is exact.               *)
(***************************************************************************)
\* execute calls of one run
MaxCalls == 2

\* cfg["strategy"] as __init__ reads it
max_trade == 10000
max_risk == 9000
slippage_pct == 30
min_liquidity == 5000

\* default of cfg paper_mode.starting_balance_usdc
StartingBalanceUsdc == 1000000

\* get_best_ask returning None
NoAsk == -1

\* the stage-2 pool threads of the monitor that reach on_opportunity
Workers == 1..2

\* the fields of an ArbOpportunity that execute reads
Opps == [yes_ask : {40}, no_ask : {40},
         yes_cost_usdc : {4000}, no_cost_usdc : {4000, 5000, 6000}]

\* what the client answers during one execute: the liquidity of the two
\* sides, then the re-fetched best asks
Books == [yes_liq : {4000, 6000}, no_liq : {4000, 6000},
          live_yes : {NoAsk, 40, 50, 60}, live_no : {NoAsk, 40, 50, 60}]

FreshState(starting_balance) ==
    [balance_usdc |-> starting_balance, total_profit_usdc |-> 0,
     trades_executed |-> 0, trades_aborted |-> 0, opportunities_seen |-> 0]

\* json.dump / json.load of the state: each number becomes its decimal
\* digits under its key, in the order of the dict
StateKeys == <<"balance_usdc", "total_profit_usdc", "trades_executed",
          "trades_aborted", "opportunities_seen">>

RECURSIVE Digits(_)
Digits(n) == IF n < 10 THEN <<n>> ELSE Append(Digits(n \div 10), n % 10)

RECURSIVE Number(_)
Number(digits) ==
    IF digits = <<>> THEN 0
    ELSE 10 * Number(SubSeq(digits, 1, Len(digits) - 1)) + digits[Len(digits)]

Dump(state) == [i \in 1..Len(StateKeys) |-> <<StateKeys[i], Digits(state[StateKeys[i]])>>]

Parse(text) ==
    [k \in {StateKeys[i] : i \in 1..Len(StateKeys)} |->
        Number(text[CHOOSE i \in 1..Len(text) : text[i][1] = k][2])]

NoFile == [exists |-> FALSE, text |-> <<>>]

SaveState(state) == [exists |-> TRUE, text |-> Dump(state)]

LoadState_AlwaysFresh(file, starting_balance) == FreshState(starting_balance)

LoadState(file, starting_balance) ==
    IF file.exists THEN Parse(file.text) ELSE FreshState(starting_balance)

\* logs/paper_state.json at start: missing, or left by an earlier run
StateFiles ==
    {NoFile,
     SaveState([balance_usdc |-> 8500, total_profit_usdc |-> 1000,
                trades_executed |-> 1, trades_aborted |-> 2,
                opportunities_seen |-> 3])}

AbsDiff(a, b) == IF a >= b THEN a - b ELSE b - a

\* abs(live - ask) / ask * 100 > slippage_pct, with ask > 0
Slipped(live, ask) == AbsDiff(live, ask) * 100 > slippage_pct * ask

Outcome_BalanceFirst(state, opp, book) ==
    LET total_cost == opp.yes_cost_usdc + opp.no_cost_usdc IN
    IF state.balance_usdc < total_cost THEN "ABORTED_BALANCE"
    ELSE IF total_cost > max_risk THEN "ABORTED_RISK"
    ELSE IF book.yes_liq < min_liquidity THEN "ABORTED_LIQUIDITY"
    ELSE IF book.no_liq < min_liquidity THEN "ABORTED_LIQUIDITY"
    ELSE IF book.live_yes = NoAsk \/ book.live_no = NoAsk THEN "ERROR"
    ELSE IF Slipped(book.live_yes, opp.yes_ask) THEN "ABORTED_SLIPPAGE"
    ELSE IF Slipped(book.live_no, opp.no_ask) THEN "ABORTED_SLIPPAGE"
    ELSE IF book.live_yes + book.live_no >= 100 THEN "ABORTED_ARB_EVAPORATED"
    ELSE "SUCCESS"

\* the checks of execute, in the order of the code
Outcome(state, opp, book) ==
    LET total_cost == opp.yes_cost_usdc + opp.no_cost_usdc IN
    IF total_cost > max_risk THEN "ABORTED_RISK"
    ELSE IF state.balance_usdc < total_cost THEN "ABORTED_BALANCE"
    ELSE IF book.yes_liq < min_liquidity THEN "ABORTED_LIQUIDITY"
    ELSE IF book.no_liq < min_liquidity THEN "ABORTED_LIQUIDITY"
    ELSE IF book.live_yes = NoAsk \/ book.live_no = NoAsk THEN "ERROR"
    ELSE IF Slipped(book.live_yes, opp.yes_ask) THEN "ABORTED_SLIPPAGE"
    ELSE IF Slipped(book.live_no, opp.no_ask) THEN "ABORTED_SLIPPAGE"
    ELSE IF book.live_yes + book.live_no >= 100 THEN "ABORTED_ARB_EVAPORATED"
    ELSE "SUCCESS"

Min3(a, b, c) ==
    IF a <= b /\ a <= c THEN a ELSE IF b <= c THEN b ELSE c

Fill_NoPayout(state, book) ==
    LET combined == book.live_yes + book.live_no
        shares == Min3((max_trade * 100) \div book.live_yes,
                       (max_trade * 100) \div book.live_no,
                       (max_risk * 100) \div combined)
        cost == (shares * combined) \div 100
        profit == (shares * (100 - combined)) \div 100
    IN  [state EXCEPT !.balance_usdc = @ - cost,
                      !.total_profit_usdc = @ + profit,
                      !.trades_executed = @ + 1]

\* the simulated fill at the live prices
Fill(state, book) ==
    LET combined == book.live_yes + book.live_no
        shares == Min3((max_trade * 100) \div book.live_yes,
                       (max_trade * 100) \div book.live_no,
                       (max_risk * 100) \div combined)
        cost == (shares * combined) \div 100
        profit == (shares * (100 - combined)) \div 100
    IN  [state EXCEPT !.balance_usdc = (@ - cost) + shares,
                      !.total_profit_usdc = @ + profit,
                      !.trades_executed = @ + 1]

Abort_CountsTrade(state) ==
    [state EXCEPT !.trades_aborted = @ + 1, !.trades_executed = @ + 1]

Abort(state) == [state EXCEPT !.trades_aborted = @ + 1]

Seen_Skipped(state) == state

\* self._state["opportunities_seen"] += 1
Seen(state) == [state EXCEPT !.opportunities_seen = @ + 1]

NoResult ==
    [outcome |-> "NONE", opp |-> CHOOSE o \in Opps : TRUE,
     book |-> CHOOSE b \in Books : TRUE, before |-> FreshState(0)]

\* execute after its first statement: the checks, then the fill or _abort,
\* both ending with _save_state; before is the state the call started from
Gates(t, opp, book, before) ==
    LET outcome == Outcome(t.state, opp, book)
        after == IF outcome = "SUCCESS" THEN Fill(t.state, book)
                 ELSE Abort(t.state)
    IN  [t EXCEPT !.state = after,
                  !.file = SaveState(after),
                  !.last = [outcome |-> outcome, opp |-> opp, book |-> book,
                            before |-> before]]

NewTrader ==
    [constructed |-> FALSE, state |-> FreshState(0), file |-> NoFile,
     start |-> FreshState(0), last |-> NoResult, calls |-> 0]

IdleWorker == [pc |-> "idle", opp |-> CHOOSE o \in Opps : TRUE, seen |-> 0]

TraderInit == trader = NewTrader /\ workers = [w \in Workers |-> IdleWorker]

\* PaperTrader(client, cfg) with the state file as the earlier runs left it
Construct(existing) ==
    /\ ~trader.constructed
    /\ LET state == LoadState(existing, StartingBalanceUsdc) IN
       trader' = [trader EXCEPT !.constructed = TRUE, !.file = existing,
                                !.state = state, !.start = state]
    /\ UNCHANGED <<mvars, pvars, inflight, bvars, workers, xvars, yvars>>

\* the process is started again over the file of the run before
Restart ==
    /\ trader.constructed
    /\ \A w \in Workers : workers[w].pc = "idle"
    /\ trader' = [trader EXCEPT
                      !.state = LoadState(trader.file, StartingBalanceUsdc),
                      !.last = NoResult]
    /\ UNCHANGED <<mvars, pvars, inflight, bvars, workers, xvars, yvars>>

\* one call of execute, run to its return
Execute(opp, book) ==
    /\ trader.constructed
    /\ trader.calls < MaxCalls
    /\ \A w \in Workers : workers[w].pc = "idle"
    /\ trader' = Gates([trader EXCEPT !.state = Seen(@), !.calls = @ + 1],
                       opp, book, trader.state)
    /\ UNCHANGED <<mvars, pvars, inflight, bvars, workers, xvars, yvars>>

TraderNext ==
    \/ \E existing \in StateFiles : Construct(existing)
    \/ \E opp \in Opps, book \in Books : Execute(opp, book)
    \/ Restart

\* execute on a pool thread; nothing in the class holds a lock, so the
\* threads interleave between the load and the store of the first statement
ExecuteLoad(w, opp) ==
    /\ trader.constructed
    /\ trader.calls < MaxCalls
    /\ workers[w].pc = "idle"
    /\ workers' = [workers EXCEPT ![w] =
                      [pc |-> "loaded", opp |-> opp,
                       seen |-> trader.state.opportunities_seen]]
    /\ trader' = [trader EXCEPT !.calls = @ + 1]
    /\ UNCHANGED <<mvars, pvars, inflight, bvars, xvars, yvars>>

ExecuteStore(w) ==
    /\ workers[w].pc = "loaded"
    /\ trader' = [trader EXCEPT
                      !.state.opportunities_seen = workers[w].seen + 1]
    /\ workers' = [workers EXCEPT ![w].pc = "stored"]
    /\ UNCHANGED <<mvars, pvars, inflight, bvars, xvars, yvars>>

ExecuteGates(w, book) ==
    /\ workers[w].pc = "stored"
    /\ trader' = Gates(trader, workers[w].opp, book, trader.state)
    /\ workers' = [workers EXCEPT ![w] = IdleWorker]
    /\ UNCHANGED <<mvars, pvars, inflight, bvars, xvars, yvars>>

PoolNext ==
    \/ \E existing \in StateFiles : Construct(existing)
    \/ \E w \in Workers, opp \in Opps : ExecuteLoad(w, opp)
    \/ \E w \in Workers : ExecuteStore(w)
    \/ \E w \in Workers, book \in Books : ExecuteGates(w, book)

(***************************************************************************)
(* The arbitrage kernel (src/bot/arbitrage.py).  A Python float is a       *)
(* binary floating-point number and every operation rounds its exact       *)
(* result to the nearest one, ties to even.  The model keeps that          *)
(* arithmetic with a mantissa of Precision bits where the float has 53.    *)
(* A number is [m, e] with value m * 2^e and 2^(Precision-1) <= m <        *)
(* 2^Precision, or m = 0.  All numbers of the kernel are >= 0.             *)
(***************************************************************************)
\* bits of the mantissa
Precision == 10

\* calls of the kernel on one market
MaxQuotes == 2

RECURSIVE Pow2(_)
Pow2(n) == IF n = 0 THEN 1 ELSE 2 * Pow2(n - 1)

\* the float nearest to (num / den) * 2^e
RECURSIVE Fl(_, _, _)
Fl(num, den, e) ==
    IF num = 0 THEN [m |-> 0, e |-> 0]
    ELSE IF num >= den * Pow2(Precision) THEN Fl(num, 2 * den, e + 1)
    ELSE IF num < den * Pow2(Precision - 1) THEN Fl(2 * num, den, e - 1)
    ELSE LET q == num \div den
             r == num % den
             up == 2 * r > den \/ (2 * r = den /\ q % 2 = 1)
             m == IF up THEN q + 1 ELSE q
         IN  IF m = Pow2(Precision)
             THEN [m |-> Pow2(Precision - 1), e |-> e + 1]
             ELSE [m |-> m, e |-> e]

\* the float a decimal literal n/d is read as
Dec(n, d) == Fl(n, d, 0)

FAdd(x, y) ==
    IF x.m = 0 THEN y
    ELSE IF y.m = 0 THEN x
    ELSE IF x.e >= y.e THEN Fl(x.m * Pow2(x.e - y.e) + y.m, 1, y.e)
    ELSE Fl(y.m * Pow2(y.e - x.e) + x.m, 1, x.e)

\* x - y for x >= y
FSub(x, y) ==
    IF y.m = 0 THEN x
    ELSE IF x.e >= y.e THEN Fl(x.m * Pow2(x.e - y.e) - y.m, 1, y.e)
    ELSE Fl(x.m - y.m * Pow2(y.e - x.e), 1, x.e)

FMul(x, y) == Fl(x.m * y.m, 1, x.e + y.e)

FDiv(x, y) == Fl(x.m, y.m, x.e - y.e)

FLess(x, y) ==
    IF y.m = 0 THEN FALSE
    ELSE IF x.m = 0 THEN TRUE
    ELSE x.e < y.e \/ (x.e = y.e /\ x.m < y.m)

FMin(x, y) == IF FLess(y, x) THEN y ELSE x

NoOpportunity ==
    [found |-> FALSE, yes_ask |-> Dec(0, 1), no_ask |-> Dec(0, 1),
     combined |-> Dec(0, 1), expected_profit_pct |-> Dec(0, 1),
     shares |-> Dec(0, 1), yes_cost_usdc |-> Dec(0, 1),
     no_cost_usdc |-> Dec(0, 1), estimated_profit_usdc |-> Dec(0, 1)]

find_arb_opportunity(yes_ask, no_ask, max_trade_size_usdc, max_risk_per_trade_usdc, min_profit_pct) ==
    LET combined == FAdd(yes_ask, no_ask)
        profit_pct == FMul(FDiv(FSub(Dec(1, 1), combined), combined),
                           Dec(100, 1))
        max_by_yes_side == FDiv(max_trade_size_usdc, yes_ask)
        max_by_no_side == FDiv(max_trade_size_usdc, no_ask)
        max_by_risk == FDiv(max_risk_per_trade_usdc, combined)
        shares == FMin(FMin(max_by_yes_side, max_by_no_side), max_by_risk)
    IN  IF ~FLess(combined, Dec(1, 1)) THEN NoOpportunity
        ELSE IF FLess(profit_pct, min_profit_pct) THEN NoOpportunity
        ELSE [found |-> TRUE, yes_ask |-> yes_ask, no_ask |-> no_ask,
              combined |-> combined, expected_profit_pct |-> profit_pct,
              shares |-> shares,
              yes_cost_usdc |-> FMul(shares, yes_ask),
              no_cost_usdc |-> FMul(shares, no_ask),
              estimated_profit_usdc |->
                  FMul(shares, FSub(Dec(1, 1), combined))]

\* the best asks _check_market reads and the strategy configuration
KernelArgs ==
    [yes_ask : {Dec(5, 100), Dec(30, 100), Dec(40, 100), Dec(55, 100)},
     no_ask : {Dec(42, 100), Dec(45, 100), Dec(60, 100), Dec(63, 100)},
     max_trade_size_usdc : {Dec(100, 1)},
     max_risk_per_trade_usdc : {Dec(90, 1), Dec(100, 1)},
     min_profit_pct : {Dec(1, 2), Dec(5, 1)}]

NewKernel ==
    [args |-> CHOOSE a \in KernelArgs : TRUE, quotes |-> 0,
     first |-> NoOpportunity, result |-> NoOpportunity]

KernelInit == kernel = NewKernel

\* the arguments of the kernel, drawn before it runs
KernelDraw == \E a \in KernelArgs : kernel = [NewKernel EXCEPT !.args = a]

\* _check_market calling the kernel on the asks it read
CheckMarket ==
    /\ kernel.quotes < MaxQuotes
    /\ LET a == kernel.args
           opp == find_arb_opportunity(a.yes_ask, a.no_ask,
                      a.max_trade_size_usdc, a.max_risk_per_trade_usdc,
                      a.min_profit_pct)
       IN  kernel' = [kernel EXCEPT
                         !.quotes = @ + 1,
                         !.result = opp,
                         !.first = IF kernel.quotes = 0 THEN opp ELSE @]
    /\ UNCHANGED <<mvars, pvars, inflight, bvars, tvars, feed, edge, scan, loops, yvars>>

KernelNext == CheckMarket

(***************************************************************************)
(* DataFeedBot._handle_event under the Feed A and Feed B loops              *)
(* (src/bot/datafeed/datafeed_bot.py).  The two loops are two threads and  *)
(* _seen_events has no lock: a thread may run between the test of line 177 *)
(* and the assignment of line 179 of the other.                            *)
(***************************************************************************)
DEDUP_TTL_S == 90

\* seconds between two readings of the clock
FEED_STEP == 45

\* calls of _handle_event, and the last reading of the clock
MaxEvents == 3
MaxFeedTime == 135

\* the football loop and the sportradar loop
Feeds == {"football", "sportradar"}

LiveEvents ==
    [home_team : {"Ajax", "AJAX"}, away_team : {"PSV"},
     event_type : {"goal"}, minute : {10, 11}]

\* str.lower() on the team names of the feeds
Lower(name) ==
    CASE name = "Ajax" -> "ajax"
      [] name = "AJAX" -> "ajax"
      [] name = "PSV" -> "psv"

\* the pieces of the formatted dedup key
DedupKey(evt) ==
    <<Lower(evt.home_team), Lower(evt.away_team), evt.event_type, evt.minute>>

DedupKeys == {DedupKey(evt) : evt \in LiveEvents}

\* _seen_events without the entries older than the TTL
Expire(seen, t) ==
    [k \in DedupKeys |->
        IF seen[k] # NoTime /\ t - seen[k] > DEDUP_TTL_S THEN NoTime ELSE seen[k]]

IdleFeed == [pc |-> "idle", key |-> CHOOSE k \in DedupKeys : TRUE, now |-> 0]

NewFeed ==
    [seen |-> [k \in DedupKeys |-> NoTime],
     threads |-> [f \in Feeds |-> IdleFeed],
     time |-> 0, handled |-> 0, delivered |-> <<>>]

FeedInit == feed = NewFeed

\* lines 165-178: key, clock, expiry, and the duplicate test
HandleCheck(f, evt) ==
    /\ feed.threads[f].pc = "idle"
    /\ feed.handled < MaxEvents
    /\ LET key == DedupKey(evt)
           seen == Expire(feed.seen, feed.time)
       IN  feed' = [feed EXCEPT
                       !.seen = seen,
                       !.handled = @ + 1,
                       !.threads[f] =
                           IF seen[key] # NoTime THEN IdleFeed
                           ELSE [pc |-> "passed", key |-> key,
                                 now |-> feed.time]]
    /\ UNCHANGED <<mvars, pvars, inflight, bvars, tvars, kernel, edge, scan, loops, yvars>>

\* lines 179-183: the key is recorded and the event goes on to the
\* dashboard and to matching and detection
HandleAccept(f) ==
    /\ feed.threads[f].pc = "passed"
    /\ LET me == feed.threads[f]
       IN  feed' = [feed EXCEPT
                       !.seen[me.key] = me.now,
                       !.delivered = Append(@, [key |-> me.key, at |-> me.now,
                                                by |-> f]),
                       !.threads[f] = IdleFeed]
    /\ UNCHANGED <<mvars, pvars, inflight, bvars, tvars, kernel, edge, scan, loops, yvars>>

FeedTick ==
    /\ feed.time < MaxFeedTime
    /\ feed' = [feed EXCEPT !.time = @ + FEED_STEP]
    /\ UNCHANGED <<mvars, pvars, inflight, bvars, tvars, kernel, edge, scan, loops, yvars>>

FeedNext ==
    \/ \E f \in Feeds, evt \in LiveEvents : HandleCheck(f, evt)
    \/ \E f \in Feeds : HandleAccept(f)
    \/ FeedTick

(***************************************************************************)
(* EdgeTracker (src/bot/datafeed/edge_tracker.py).  Times are seconds,     *)
(* prices are cents.  poll_pending is split at its HTTP request: the       *)
(* expiry test reads the clock before the request, the latency of a        *)
(* measurement reads it again after the response.                          *)
(***************************************************************************)
PRICE_MOVE_THRESHOLD == 2
MAX_TRACK_WINDOW_S == 120
HTTP_TIMEOUT_S == 8
MAX_MEASUREMENTS == 200
EDGE_STEP == 8
MaxEdgeTime == 136
MaxTracks == 2

EdgeIds == {"7_goal_10", "7_red_card_30"}

DetectionPrices == {50}

NoQuote == -1

MarketPrices == {NoQuote, 48, 51}

PendingIds(pending) == {pending[i].event_id : i \in DOMAIN pending}

NewEdge ==
    [now |-> 0, pending |-> <<>>, measurements |-> <<>>, pc |-> "idle",
     started |-> 0, tracks |-> 0,
     price_map |-> [eid \in EdgeIds |-> NoQuote], size |-> 0, cursor |-> 0,
     resolved |-> {}]

EdgeInit == edge = NewEdge

\* EdgeTracker.track; edge_no numbers the PendingEdge objects as they are
\* created
track(eid, price) ==
    /\ edge.tracks < MaxTracks
    /\ edge' =
         IF eid \in PendingIds(edge.pending)
         THEN [edge EXCEPT !.tracks = @ + 1]
         ELSE [edge EXCEPT
                 !.tracks = @ + 1,
                 !.pending = Append(@, [event_id |-> eid,
                                        event_ts |-> edge.now,
                                        market_price_at_detection |-> price,
                                        edge_no |-> edge.tracks + 1])]
    /\ UNCHANGED <<mvars, pvars, inflight, bvars, tvars, kernel, feed, scan, loops, yvars>>

Unexpired(pending, t) ==
    SelectSeq(pending, LAMBDA p : ~(t - p.event_ts > MAX_TRACK_WINDOW_S))

\* poll_pending, lines 74-93: expiry against the clock, then the request is sent
PollBegin ==
    /\ edge.pc = "idle"
    /\ edge.pending # <<>>
    /\ LET kept == Unexpired(edge.pending, edge.now)
       IN edge' = [edge EXCEPT
                     !.pending = kept,
                     !.pc = IF kept = <<>> THEN "idle" ELSE "fetching",
                     !.started = edge.now]
    /\ UNCHANGED <<mvars, pvars, inflight, bvars, tvars, kernel, feed, scan, loops, yvars>>

Moved(p, price_map) ==
    /\ price_map[p.event_id] # NoQuote
    /\ AbsDiff(price_map[p.event_id], p.market_price_at_detection)
         >= PRICE_MOVE_THRESHOLD

Measurement(p, price_map, t) ==
    [event_id |-> p.event_id,
     latency_s |-> t - p.event_ts,
     price_at_detection |-> p.market_price_at_detection,
     price_after_move |-> price_map[p.event_id],
     detected_at |-> p.event_ts,
     edge_no |-> p.edge_no]

RECURSIVE Measure(_, _, _)
Measure(pending, price_map, t) ==
    IF pending = <<>> THEN <<>>
    ELSE LET rest == Measure(Tail(pending), price_map, t)
         IN IF Moved(Head(pending), price_map)
            THEN <<Measurement(Head(pending), price_map, t)>> \o rest
            ELSE rest

\* lines 133-134: the list keeps its newest n entries
Newest(seq, n) ==
    IF Len(seq) <= n THEN seq ELSE SubSeq(seq, Len(seq) - n + 1, Len(seq))

\* poll_pending, lines 94-146: the response arrives and the moves are recorded
PollFinish(price_map) ==
    /\ edge.pc = "fetching"
    /\ edge' = [edge EXCEPT
                  !.pc = "idle",
                  !.measurements =
                      Newest(@ \o Measure(edge.pending, price_map, edge.now),
                             MAX_MEASUREMENTS),
                  !.pending = SelectSeq(@, LAMBDA p : ~Moved(p, price_map))]
    /\ UNCHANGED <<mvars, pvars, inflight, bvars, tvars, kernel, feed, scan, loops, yvars>>

\* poll_pending, lines 96-98: the request failed
PollError ==
    /\ edge.pc = "fetching"
    /\ edge' = [edge EXCEPT !.pc = "idle"]
    /\ UNCHANGED <<mvars, pvars, inflight, bvars, tvars, kernel, feed, scan, loops, yvars>>

EdgeTick ==
    /\ edge.now < MaxEdgeTime
    /\ edge.pc = "fetching" => edge.now - edge.started < HTTP_TIMEOUT_S
    /\ edge' = [edge EXCEPT !.now = @ + EDGE_STEP]
    /\ UNCHANGED <<mvars, pvars, inflight, bvars, tvars, kernel, feed, scan, loops, yvars>>

EdgeNext ==
    \/ \E eid \in EdgeIds, price \in DetectionPrices : track(eid, price)
    \/ PollBegin
    \/ \E price_map \in [EdgeIds -> MarketPrices] : PollFinish(price_map)
    \/ PollError
    \/ EdgeTick

(***************************************************************************)
(* poll_pending beside track.  The feed threads call track while the edge  *)
(* thread is inside poll_pending, and _pending has no lock: the loop of    *)
(* lines 114-143 is taken one dict-iterator step at a time, and a step     *)
(* that finds the size of _pending changed raises RuntimeError, which      *)
(* _edge_loop catches (datafeed_bot.py 156-159).                           *)
(***************************************************************************)
\* lines 94-114: the response arrives, the iteration over _pending begins
PollReceive(price_map) ==
    /\ edge.pc = "fetching"
    /\ edge' = [edge EXCEPT
                  !.pc = "measuring",
                  !.price_map = price_map,
                  !.size = Len(edge.pending),
                  !.cursor = 1,
                  !.resolved = {}]
    /\ UNCHANGED <<mvars, pvars, inflight, bvars, tvars, kernel, feed, scan, loops, yvars>>

\* one step of `for eid, pending in self._pending.items()` and its body
MeasureStep ==
    /\ edge.pc = "measuring"
    /\ edge' =
         IF Len(edge.pending) # edge.size
         THEN [edge EXCEPT !.pc = "idle"]
         ELSE IF edge.cursor > edge.size
         THEN [edge EXCEPT
                 !.pc = "idle",
                 !.pending = SelectSeq(@, LAMBDA p : p.edge_no \notin edge.resolved)]
         ELSE LET p == edge.pending[edge.cursor]
              IN IF Moved(p, edge.price_map)
                 THEN [edge EXCEPT
                         !.cursor = @ + 1,
                         !.measurements =
                             Newest(Append(@, Measurement(p, edge.price_map, edge.now)),
                                    MAX_MEASUREMENTS),
                         !.resolved = @ \cup {p.edge_no}]
                 ELSE [edge EXCEPT !.cursor = @ + 1]
    /\ UNCHANGED <<mvars, pvars, inflight, bvars, tvars, kernel, feed, scan, loops, yvars>>

\* between two polls more than the tracking window passes
EdgeWait ==
    /\ edge.pc = "idle"
    /\ edge.now < MaxEdgeTime
    /\ edge' = [edge EXCEPT !.now = @ + MAX_TRACK_WINDOW_S + 1]
    /\ UNCHANGED <<mvars, pvars, inflight, bvars, tvars, kernel, feed, scan, loops, yvars>>

EdgeThreadsNext ==
    \/ \E eid \in EdgeIds, price \in DetectionPrices : track(eid, price)
    \/ PollBegin
    \/ \E price_map \in [EdgeIds -> MarketPrices] : PollReceive(price_map)
    \/ MeasureStep
    \/ PollError
    \/ EdgeWait

(***************************************************************************)
(* CryptoArbBot._do_scan (src/bot/crypto_arb/crypto_arb_bot.py).  The      *)
(* fetches of one exchange run the same closure, so the scan keeps, per    *)
(* exchange, how many of them wait for the semaphore, hold it, and have    *)
(* returned with which outcome.  The pool hands out tasks in the order of  *)
(* submission: coinbase, kraken, coinbase, ...                             *)
(***************************************************************************)
CONCURRENCY == 5
MaxPairs == 6

Exchanges == {"coinbase", "kraken"}

\* len(self._pairs): a single pair, or more pairs than a semaphore admits
PairCounts == {1, MaxPairs}

MAX_WORKERS == CONCURRENCY * 2

PerExchange(n) == [ex \in Exchanges |-> n]

NewScan ==
    [pc |-> "idle", running |-> TRUE, pairs |-> 0, submitted |-> 0,
     dequeued |-> 0, sem |-> PerExchange(CONCURRENCY),
     waiting |-> PerExchange(0), fetching |-> PerExchange(0),
     returned |-> PerExchange(0), succeeded |-> PerExchange(FALSE),
     health_now |-> PerExchange(TRUE), timed_out |-> FALSE,
     health |-> PerExchange(TRUE)]

ScanInit == scan = NewScan

\* the exchange of the k-th submitted fetch (lines 242-243)
TaskExchange(k) == IF k % 2 = 1 THEN "coinbase" ELSE "kraken"

Busy == scan.waiting["coinbase"] + scan.waiting["kraken"]
        + scan.fetching["coinbase"] + scan.fetching["kraken"]

Acquired(ex) == scan.fetching[ex] + scan.returned[ex]

\* _do_scan, lines 211-238
StartScan(n) ==
    /\ scan.pc = "idle"
    /\ scan.running
    /\ scan' = [scan EXCEPT !.pc = "submitting", !.pairs = n]
    /\ UNCHANGED <<mvars, pvars, inflight, bvars, tvars, kernel, feed, edge, loops, yvars>>

\* one round of the submission loop, lines 239-243
SubmitPair ==
    /\ scan.pc = "submitting"
    /\ scan' =
         IF ~scan.running
         THEN [scan EXCEPT !.pc = "returned"]
         ELSE [scan EXCEPT
                 !.submitted = @ + 2,
                 !.pc = IF scan.submitted + 2 = 2 * scan.pairs
                        THEN "collecting" ELSE "submitting"]
    /\ UNCHANGED <<mvars, pvars, inflight, bvars, tvars, kernel, feed, edge, loops, yvars>>

\* a pool thread takes the oldest queued fetch and enters `with sem`
Dequeue ==
    /\ scan.dequeued < scan.submitted
    /\ Busy < MAX_WORKERS
    /\ scan' = [scan EXCEPT
                  !.dequeued = @ + 1,
                  !.waiting[TaskExchange(scan.dequeued + 1)] = @ + 1]
    /\ UNCHANGED <<mvars, pvars, inflight, bvars, tvars, kernel, feed, edge, loops, yvars>>

\* sem.__enter__
Acquire(ex) ==
    /\ scan.waiting[ex] > 0
    /\ scan.sem[ex] > 0
    /\ scan' = [scan EXCEPT
                  !.sem[ex] = @ - 1,
                  !.waiting[ex] = @ - 1,
                  !.fetching[ex] = @ + 1]
    /\ UNCHANGED <<mvars, pvars, inflight, bvars, tvars, kernel, feed, edge, loops, yvars>>

Release_OnSuccessOnly(sem, fetched) == IF fetched THEN sem + 1 ELSE sem

\* sem.__exit__ runs on both ways out of the try statement
Release(sem, fetched) == sem + 1

\* fetch_one returns (lines 226-233); the scan clears the health flag of the
\* exchange on a failed fetch unless its deadline has passed (lines 246-262)
FetchReturns(ex, fetched) ==
    /\ scan.fetching[ex] > 0
    /\ scan' = [scan EXCEPT
                  !.fetching[ex] = @ - 1,
                  !.sem[ex] = Release(@, fetched),
                  !.returned[ex] = @ + 1,
                  !.succeeded[ex] = @ \/ fetched,
                  !.health_now[ex] = @ /\ (fetched \/ scan.timed_out)]
    /\ UNCHANGED <<mvars, pvars, inflight, bvars, tvars, kernel, feed, edge, loops, yvars>>

\* as_completed raises FutureTimeout (lines 246, 261-262)
ScanTimeout ==
    /\ scan.pc = "collecting"
    /\ ~scan.timed_out
    /\ scan.returned["coinbase"] + scan.returned["kraken"] < scan.submitted
    /\ scan' = [scan EXCEPT !.timed_out = TRUE]
    /\ UNCHANGED <<mvars, pvars, inflight, bvars, tvars, kernel, feed, edge, loops, yvars>>

\* the pool is left once every fetch has returned; lines 264-266
PublishHealth ==
    /\ scan.pc = "collecting"
    /\ scan.returned["coinbase"] + scan.returned["kraken"] = scan.submitted
    /\ scan' = [scan EXCEPT
                  !.pc = "published",
                  !.health = scan.health_now]
    /\ UNCHANGED <<mvars, pvars, inflight, bvars, tvars, kernel, feed, edge, loops, yvars>>

\* CryptoArbBot.stop; the scan reads the flag only while it submits
StopScanner ==
    /\ scan.running
    /\ scan.pc = "submitting"
    /\ scan' = [scan EXCEPT !.running = FALSE]
    /\ UNCHANGED <<mvars, pvars, inflight, bvars, tvars, kernel, feed, edge, loops, yvars>>

ScanNext ==
    \/ \E n \in PairCounts : StartScan(n)
    \/ SubmitPair
    \/ Dequeue
    \/ \E ex \in Exchanges : Acquire(ex)
    \/ \E ex \in Exchanges, fetched \in BOOLEAN : FetchReturns(ex, fetched)
    \/ ScanTimeout
    \/ PublishHealth
    \/ StopScanner

(***************************************************************************)
(* start(), stop() and the long-running loops of Monitor, MirrorBot (with  *)
(* its AddressMonitor) and DataFeedBot.  Each bot is started on a thread   *)
(* of its own (src/main_dashboard.py 111-137) and stopped from another     *)
(* one; every loop is `while self._running:` around a body that polls or   *)
(* scans and sleeps.                                                       *)
(***************************************************************************)
Bots == {"Monitor", "MirrorBot", "DataFeedBot"}

RunningFlags == {"Monitor", "MirrorBot", "AddressMonitor", "DataFeedBot"}

LoopNames ==
    {"Monitor.start", "_poll_loop", "_price_update_loop",
     "_football_loop", "_sportradar_loop", "_price_loop", "_edge_loop"}

DataFeedLoops ==
    {"_football_loop", "_sportradar_loop", "_price_loop", "_edge_loop"}

\* the bot a loop belongs to
BotOf(l) ==
    CASE l = "Monitor.start" -> "Monitor"
      [] l \in {"_poll_loop", "_price_update_loop"} -> "MirrorBot"
      [] OTHER -> "DataFeedBot"

\* the object whose _running the loop tests
FlagOf(l) ==
    CASE l = "Monitor.start" -> "Monitor"
      [] l = "_poll_loop" -> "AddressMonitor"
      [] l = "_price_update_loop" -> "MirrorBot"
      [] OTHER -> "DataFeedBot"

\* the flags stop() of a bot clears
StopClears(b) ==
    CASE b = "Monitor" -> {"Monitor"}
      [] b = "MirrorBot" -> {"MirrorBot", "AddressMonitor"}
      [] OTHER -> {"DataFeedBot"}

NewLoops ==
    [running |-> [f \in RunningFlags |-> FALSE],
     starter |-> [b \in Bots |-> "idle"],
     pc |-> [l \in LoopNames |-> "unstarted"],
     stopped |-> [b \in Bots |-> FALSE]]

LoopsInit == loops = NewLoops

\* the thread of a bot calls start()
CallStart(b) ==
    /\ loops.starter[b] = "idle"
    /\ loops' = [loops EXCEPT !.starter[b] = "called"]
    /\ UNCHANGED <<mvars, pvars, inflight, bvars, tvars, kernel, feed, edge, scan, yvars>>

\* Monitor.start: the flag is set and the caller enters the scan loop
MonitorStart ==
    /\ loops.starter["Monitor"] = "called"
    /\ loops' = [loops EXCEPT
                   !.running["Monitor"] = TRUE,
                   !.starter["Monitor"] = "done",
                   !.pc["Monitor.start"] = "check"]
    /\ UNCHANGED <<mvars, pvars, inflight, bvars, tvars, kernel, feed, edge, scan, yvars>>

\* MirrorBot.start, lines 47-48
MirrorStartFlag ==
    /\ loops.starter["MirrorBot"] = "called"
    /\ loops' = [loops EXCEPT
                   !.running["MirrorBot"] = TRUE,
                   !.starter["MirrorBot"] = "flagged"]
    /\ UNCHANGED <<mvars, pvars, inflight, bvars, tvars, kernel, feed, edge, scan, yvars>>

\* MirrorBot.start, line 49: AddressMonitor.start
MirrorStartMonitor ==
    /\ loops.starter["MirrorBot"] = "flagged"
    /\ loops' = [loops EXCEPT
                   !.running["AddressMonitor"] = TRUE,
                   !.starter["MirrorBot"] = "polling",
                   !.pc["_poll_loop"] = "check"]
    /\ UNCHANGED <<mvars, pvars, inflight, bvars, tvars, kernel, feed, edge, scan, yvars>>

\* MirrorBot.start, lines 50-56
MirrorStartUpdater ==
    /\ loops.starter["MirrorBot"] = "polling"
    /\ loops' = [loops EXCEPT
                   !.starter["MirrorBot"] = "done",
                   !.pc["_price_update_loop"] = "check"]
    /\ UNCHANGED <<mvars, pvars, inflight, bvars, tvars, kernel, feed, edge, scan, yvars>>

\* DataFeedBot.start, lines 76-78
DataFeedStartFlag ==
    /\ loops.starter["DataFeedBot"] = "called"
    /\ loops' = [loops EXCEPT
                   !.running["DataFeedBot"] = TRUE,
                   !.starter["DataFeedBot"] = "flagged"]
    /\ UNCHANGED <<mvars, pvars, inflight, bvars, tvars, kernel, feed, edge, scan, yvars>>

\* DataFeedBot.start, lines 80-96
DataFeedStartThreads ==
    /\ loops.starter["DataFeedBot"] = "flagged"
    /\ loops' = [loops EXCEPT
                   !.starter["DataFeedBot"] = "done",
                   !.pc = [l \in LoopNames |->
                             IF l \in DataFeedLoops THEN "check" ELSE @[l]]]
    /\ UNCHANGED <<mvars, pvars, inflight, bvars, tvars, kernel, feed, edge, scan, yvars>>

\* stop() of a bot whose start() has been called
stop(b) ==
    /\ loops.starter[b] # "idle"
    /\ ~loops.stopped[b]
    /\ loops' = [loops EXCEPT
                   !.stopped[b] = TRUE,
                   !.running = [f \in RunningFlags |->
                                  IF f \in StopClears(b) THEN FALSE ELSE @[f]]]
    /\ UNCHANGED <<mvars, pvars, inflight, bvars, tvars, kernel, feed, edge, scan, yvars>>

\* `while self._running:`
LoopCheck(l) ==
    /\ loops.pc[l] = "check"
    /\ loops' = [loops EXCEPT
                   !.pc[l] = IF loops.running[FlagOf(l)] THEN "body" ELSE "exited"]
    /\ UNCHANGED <<mvars, pvars, inflight, bvars, tvars, kernel, feed, edge, scan, yvars>>

\* one round of the loop: its poll or scan and its sleep return
LoopBody(l) ==
    /\ loops.pc[l] = "body"
    /\ loops' = [loops EXCEPT !.pc[l] = "check"]
    /\ UNCHANGED <<mvars, pvars, inflight, bvars, tvars, kernel, feed, edge, scan, yvars>>

LoopsNext ==
    \/ \E b \in Bots : CallStart(b)
    \/ MonitorStart
    \/ MirrorStartFlag
    \/ MirrorStartMonitor
    \/ MirrorStartUpdater
    \/ DataFeedStartFlag
    \/ DataFeedStartThreads
    \/ \E b \in Bots : stop(b)
    \/ \E l \in LoopNames : LoopCheck(l)
    \/ \E l \in LoopNames : LoopBody(l)

(***************************************************************************)
(* Monitor.start and Monitor._scan (src/bot/monitor.py).  One thread runs  *)
(* the loop: a scan, then a sleep of the polling interval.  Stage 2 hands  *)
(* every candidate to a pool thread; what a check of a market does is the  *)
(* environment's choice: the books show no arbitrage, they show one and    *)
(* the callback runs, or the order-book fetch, the kernel or the callback  *)
(* raises.                                                                 *)
(***************************************************************************)
POLLING_INTERVAL == 2
MaxScans == 2
MaxOverrun == 3
MaxCandidates == 2

CandidateIds == 1..MaxCandidates

Behaviours ==
    {"no_arb", "arb", "fetch_raises", "kernel_raises", "callback_raises"}

\* _check_market for a market that behaves as given: was the opportunity
\* callback invoked, and did the call raise
check_market(behaviour) ==
    [called |-> behaviour \in {"arb", "callback_raises"},
     raised |-> behaviour \in {"fetch_raises", "kernel_raises", "callback_raises"}]

NewCycle ==
    [pc |-> "loop", scans |-> 0, time |-> 0, began |-> 0,
     candidates |-> <<>>, pending |-> {}, results |-> {}, called |-> {},
     failed |-> {}, scan_error |-> FALSE, log |-> <<>>]

CycleInit == cycle = NewCycle

\* `while self._running:` and stage 1 of _scan (lines 54-56, 66-99): the
\* markets are fetched and pre-screened, the candidates are submitted
ScanBegin(candidates) ==
    /\ cycle.pc = "loop"
    /\ cycle.scans < MaxScans
    /\ cycle' = [cycle EXCEPT
                   !.pc = IF DOMAIN candidates = {} THEN "sleep" ELSE "stage2",
                   !.scans = @ + 1,
                   !.began = cycle.time,
                   !.candidates = candidates,
                   !.pending = DOMAIN candidates,
                   !.results = {}, !.called = {}, !.failed = {},
                   !.scan_error = FALSE,
                   !.log = IF DOMAIN candidates = {}
                           THEN Append(@, [began |-> cycle.time, ended |-> cycle.time])
                           ELSE @]
    /\ UNCHANGED <<mvars, pvars, inflight, bvars, tvars, xvars, arb, football, poller>>

\* get_sports_markets or the pre-screen raises: start catches it (lines 57-58)
ScanRaises ==
    /\ cycle.pc = "loop"
    /\ cycle.scans < MaxScans
    /\ cycle' = [cycle EXCEPT
                   !.pc = "sleep",
                   !.scans = @ + 1,
                   !.began = cycle.time,
                   !.candidates = <<>>,
                   !.pending = {}, !.results = {}, !.called = {}, !.failed = {},
                   !.scan_error = TRUE,
                   !.log = Append(@, [began |-> cycle.time, ended |-> cycle.time])]
    /\ UNCHANGED <<mvars, pvars, inflight, bvars, tvars, xvars, arb, football, poller>>

\* a pool thread runs _check_market for one candidate (lines 103, 145-191)
CheckOne(m) ==
    /\ cycle.pc = "stage2"
    /\ m \in cycle.pending
    /\ LET r == check_market(cycle.candidates[m])
       IN cycle' = [cycle EXCEPT
                      !.pending = @ \ {m},
                      !.results = @ \cup {[market |-> m, raised |-> r.raised]},
                      !.called = IF r.called THEN @ \cup {m} ELSE @]
    /\ UNCHANGED <<mvars, pvars, inflight, bvars, tvars, xvars, arb, football, poller>>

Collect_Propagates(raised) == IF raised THEN "raise" ELSE "next"

\* lines 105-112: future.result() inside try / except Exception
Collect(raised) == "next"

\* as_completed yields a finished check (lines 104-112)
CollectOne(r) ==
    /\ cycle.pc = "stage2"
    /\ r \in cycle.results
    /\ cycle' =
         IF Collect(r.raised) = "next"
         THEN [cycle EXCEPT
                 !.results = @ \ {r},
                 !.failed = IF r.raised THEN @ \cup {r.market} ELSE @]
         ELSE [cycle EXCEPT
                 !.results = @ \ {r},
                 !.pc = "unwinding",
                 !.scan_error = TRUE]
    /\ UNCHANGED <<mvars, pvars, inflight, bvars, tvars, xvars, arb, football, poller>>

\* the pool is left when every check has finished; _scan returns, or the
\* exception that left the collection loop reaches start (lines 57-58, 102)
ScanEnd ==
    /\ cycle.pc \in {"stage2", "unwinding"}
    /\ cycle.pending = {}
    /\ cycle.pc = "stage2" => cycle.results = {}
    /\ cycle' = [cycle EXCEPT
                   !.pc = "sleep",
                   !.log = Append(@, [began |-> cycle.began, ended |-> cycle.time])]
    /\ UNCHANGED <<mvars, pvars, inflight, bvars, tvars, xvars, arb, football, poller>>

\* the order-book requests of a scan take time
Elapse ==
    /\ cycle.pc = "stage2"
    /\ cycle.time - cycle.began < MaxOverrun
    /\ cycle' = [cycle EXCEPT !.time = @ + 1]
    /\ UNCHANGED <<mvars, pvars, inflight, bvars, tvars, xvars, arb, football, poller>>

\* time.sleep(interval), line 59
Sleep ==
    /\ cycle.pc = "sleep"
    /\ cycle' = [cycle EXCEPT !.pc = "loop", !.time = @ + POLLING_INTERVAL]
    /\ UNCHANGED <<mvars, pvars, inflight, bvars, tvars, xvars, arb, football, poller>>

CycleNext ==
    \/ \E ids \in SUBSET CandidateIds :
         \E candidates \in [ids -> Behaviours] : ScanBegin(candidates)
    \/ ScanRaises
    \/ \E m \in CandidateIds : CheckOne(m)
    \/ \E r \in [market : CandidateIds, raised : BOOLEAN] : CollectOne(r)
    \/ ScanEnd
    \/ Elapse
    \/ Sleep

\* ---- crypto cross-exchange scanner: pair evaluation and paper trade ----
\* amounts of USDC are in cents, prices in USDC per unit, volumes in
\* hundredths of a unit (price * vol is in cents), percentages in basis points

starting_balance == 2000000

min_profit_pct == 50

max_position_usdc == 50000

\* max_position_pct, in percent
max_position_pct == 2

min_book_age_s == 60

\* the 10 USDC floor of a position, in cents
MIN_POSITION == 1000

MaxArbScans == 2

taker_fee(ex) == IF ex = "coinbase" THEN 60 ELSE 26

maker_fee(ex) == IF ex = "coinbase" THEN 40 ELSE 16

\* what fetch_one returns when the request raised: not stored in books_*
FailedBook == [ok |-> FALSE, bids |-> <<>>, asks |-> <<>>, age |-> 0]

BidLists == { <<>>, << <<99, 500>> >>, << <<102, 500>> >>, << <<102, 5>> >> }

AskLists == { <<>>, << <<100, 500>> >>, << <<100, 200>>, <<103, 500>> >> }

FetchedBooks ==
    [ok : {TRUE}, bids : BidLists, asks : AskLists, age : {0}]
      \cup { [ok |-> TRUE, bids |-> << <<102, 500>> >>,
              asks |-> << <<100, 500>> >>, age |-> min_book_age_s + 1] }

OrderBooks == {FailedBook} \cup FetchedBooks

NewArb ==
    [scan_count |-> 0, opp_count |-> 0, trade_count |-> 0,
     balance |-> starting_balance, realized_pnl |-> 0,
     opportunities |-> <<>>, trades |-> <<>>, last_scan_pairs |-> <<>>,
     books |-> [coinbase |-> FailedBook, kraken |-> FailedBook]]

ArbInit == arb = NewArb

Position(st) ==
    LET pct == (st.balance * max_position_pct) \div 100
    IN  IF pct < max_position_usdc THEN pct ELSE max_position_usdc

RECURSIVE Walk(_, _, _, _, _)
Walk(levels, i, remaining, total, qty) ==
    IF i > Len(levels)
    THEN [total |-> total, qty |-> qty, remaining |-> remaining]
    ELSE LET price == levels[i][1]
             vol   == levels[i][2]
             lv    == price * vol
         IN  IF remaining <= lv
             THEN LET fq == remaining \div price
                  IN  [total |-> total + fq * price, qty |-> qty + fq, remaining |-> 0]
             ELSE Walk(levels, i + 1, remaining - lv, total + lv, qty + vol)

\* the walk's totals and the USDC filled; the VWAP is total / qty
vwap_buy(asks, usdc) ==
    LET w == Walk(asks, 1, usdc, 0, 0)
    IN  [total |-> w.total, qty |-> w.qty, fill |-> IF w.qty = 0 THEN 0 ELSE usdc - w.remaining]

vwap_sell(bids, usdc) ==
    LET w == Walk(bids, 1, usdc, 0, 0)
    IN  [total |-> w.total, qty |-> w.qty, fill |-> IF w.qty = 0 THEN 0 ELSE usdc - w.remaining]

\* abs(vwap - best) / best * 100, with vwap = total / qty
Slip(w, best) ==
    LET at_best == best * w.qty
        diff    == IF w.total >= at_best THEN w.total - at_best ELSE at_best - w.total
    IN  IF best = 0 THEN 0 ELSE (diff * 10000) \div at_best

RawSpread(buy_ask, sell_bid) == ((sell_bid - buy_ask) * 10000) \div buy_ask

FeePct(buy_ex, sell_ex) == taker_fee(buy_ex) + maker_fee(sell_ex)

NetPct(buy_ex, buy_bk_a, sell_ex, sell_bk_b, pos) ==
    RawSpread(buy_bk_a[1][1], sell_bk_b[1][1]) - FeePct(buy_ex, sell_ex)
      - (Slip(vwap_buy(buy_bk_a, pos), buy_bk_a[1][1])
           + Slip(vwap_sell(sell_bk_b, pos), sell_bk_b[1][1]))

execute_paper_trade(st, p) ==
    LET pos == IF Position(st) < st.balance THEN Position(st) ELSE st.balance
        buy_fee  == (pos * taker_fee(p.buy_ex)) \div 10000
        proceeds == ((pos - buy_fee) * p.sell_bid) \div p.buy_ask
        sell_fee == (proceeds * maker_fee(p.sell_ex)) \div 10000
        pnl      == (proceeds - sell_fee) - pos
    IN  IF pos < MIN_POSITION THEN st
        ELSE [st EXCEPT !.balance = @ + pnl, !.realized_pnl = @ + pnl,
                        !.trade_count = @ + 1,
                        !.trades = Append(@, [buy_ex |-> p.buy_ex, sell_ex |-> p.sell_ex,
                                              pos_usdc |-> pos, pnl_usdc |-> pnl,
                                              ts |-> p.ts])]

handle_opportunity(st, p) ==
    execute_paper_trade([st EXCEPT !.opp_count = @ + 1,
                                   !.opportunities = Append(@, p)], p)

\* one pass of the direction loop, lines 293-343
EvaluateDirection(st, buy_ex, buy_bk_a, sell_ex, sell_bk_b) ==
    LET buy_ask  == buy_bk_a[1][1]
        sell_bid == sell_bk_b[1][1]
        pos      == Position(st)
        actual   == Min3(vwap_buy(buy_bk_a, pos).fill, vwap_sell(sell_bk_b, pos).fill, pos)
        net      == NetPct(buy_ex, buy_bk_a, sell_ex, sell_bk_b, pos)
        pair_data == [buy_ex |-> buy_ex, sell_ex |-> sell_ex, buy_ask |-> buy_ask,
                      sell_bid |-> sell_bid, net_pct |-> net, ts |-> st.scan_count]
        listed   == [st EXCEPT !.last_scan_pairs = Append(@, pair_data)]
    IN  IF sell_bid <= buy_ask THEN st
        ELSE IF actual < MIN_POSITION THEN st
        ELSE IF net >= min_profit_pct THEN handle_opportunity(listed, pair_data)
        ELSE listed

\* the body of the pair loop, lines 274-343
EvaluatePair(st, cb, kr) ==
    IF ~cb.ok \/ ~kr.ok THEN st
    ELSE IF cb.bids = <<>> \/ cb.asks = <<>> \/ kr.bids = <<>> \/ kr.asks = <<>> THEN st
    ELSE IF cb.age > min_book_age_s \/ kr.age > min_book_age_s THEN st
    ELSE EvaluateDirection(
             EvaluateDirection(st, "coinbase", cb.asks, "kraken", kr.bids),
             "kraken", kr.asks, "coinbase", cb.bids)

\* _do_scan from line 268 on, for the books the fetch stage gathered for the pair
DoScan(cb, kr) ==
    /\ arb.scan_count < MaxArbScans
    /\ arb' = EvaluatePair([arb EXCEPT !.scan_count = @ + 1, !.last_scan_pairs = <<>>,
                                       !.books = [coinbase |-> cb, kraken |-> kr]],
                           cb, kr)
    /\ UNCHANGED <<mvars, pvars, inflight, bvars, tvars, xvars, cycle, football, poller>>

\* CryptoArbBot.reset
ArbReset ==
    /\ arb.scan_count > 0
    /\ arb' = [NewArb EXCEPT !.books = arb.books,
                          !.last_scan_pairs = arb.last_scan_pairs]
    /\ UNCHANGED <<mvars, pvars, inflight, bvars, tvars, xvars, cycle, football, poller>>

ArbNext ==
    \/ \E cb \in OrderBooks, kr \in OrderBooks : DoScan(cb, kr)
    \/ ArbReset

\* ---- Feed A: FootballFeed.poll and _diff ----
MaxFixtures == 2

MaxFeedPolls == 2

FixtureIds == 1..MaxFixtures

\* a fixture id the response (or the snapshot) does not hold
NoFixture == [live |-> FALSE, home |-> 0, away |-> 0, events |-> <<>>]

EventLists ==
    { <<>>, <<"Goal">>, <<"Red Card">>, <<"Goal", "Red Card">>, <<"Red Card", "Goal">> }

LiveFixtures ==
    { [live |-> TRUE, home |-> g[1], away |-> g[2], events |-> ev] :
        g \in { <<0, 0>>, <<1, 0>>, <<0, 1>> }, ev \in EventLists }

Responses == [FixtureIds -> {NoFixture} \cup LiveFixtures]

NewFootball ==
    [last_fixtures |-> [fid \in FixtureIds |-> NoFixture],
     previous |-> [fid \in FixtureIds |-> NoFixture],
     events |-> <<>>, polls |-> 0, raised |-> FALSE]

FootballInit == football = NewFootball

make_event(fid, event_type) == [fixture_id |-> fid, event_type |-> event_type]

\* the events of one fixture of the response, lines 64-88
DiffFixture(fid, f, prev) ==
    IF ~prev.live THEN << make_event(fid, "match_start") >>
    ELSE IF f.home > prev.home \/ f.away > prev.away
         THEN << make_event(fid, "goal") >>
    ELSE IF /\ Len(f.events) > Len(prev.events)
            /\ f.events[Len(f.events)] = "Red Card"
         THEN << make_event(fid, "red_card") >>
    ELSE <<>>

RECURSIVE DiffCurrent(_, _, _)
DiffCurrent(fixtures, last, fid) ==
    IF fid > MaxFixtures THEN <<>>
    ELSE (IF fixtures[fid].live THEN DiffFixture(fid, fixtures[fid], last[fid]) ELSE <<>>)
           \o DiffCurrent(fixtures, last, fid + 1)

\* the fixtures that disappeared, lines 91-95
RECURSIVE DiffGone(_, _, _)
DiffGone(fixtures, last, fid) ==
    IF fid > MaxFixtures THEN <<>>
    ELSE (IF last[fid].live /\ ~fixtures[fid].live
          THEN << make_event(fid, "match_end") >> ELSE <<>>)
           \o DiffGone(fixtures, last, fid + 1)

diff(fixtures, last) == DiffCurrent(fixtures, last, 1) \o DiffGone(fixtures, last, 1)

\* FootballFeed.poll with a 200 answer that parses
FootballPoll(fixtures) ==
    /\ football.polls < MaxFeedPolls
    /\ football' = [football EXCEPT !.events = diff(fixtures, football.last_fixtures),
                                    !.previous = football.last_fixtures,
                                    !.last_fixtures = fixtures,
                                    !.polls = @ + 1, !.raised = FALSE]
    /\ UNCHANGED <<mvars, pvars, inflight, bvars, tvars, xvars, cycle, arb, poller>>

\* FootballFeed.poll raising before the diff: the request, a 429, an HTTP
\* error status or a body that is not JSON
FootballPollRaises ==
    /\ football.polls < MaxFeedPolls
    /\ football' = [football EXCEPT !.events = <<>>,
                                    !.previous = football.last_fixtures,
                                    !.polls = @ + 1, !.raised = TRUE]
    /\ UNCHANGED <<mvars, pvars, inflight, bvars, tvars, xvars, cycle, arb, poller>>

FootballNext ==
    \/ \E fixtures \in Responses : FootballPoll(fixtures)
    \/ FootballPollRaises

Init ==
    /\ MonitorInit /\ PortfolioInit /\ ThreadsInit /\ BusInit /\ TraderInit
    /\ KernelInit /\ FeedInit /\ EdgeInit /\ ScanInit /\ LoopsInit
    /\ CycleInit /\ ArbInit /\ FootballInit /\ PollerInit

InitThreads == Init /\ kind = "mirror" /\ prefill.target = 0

SpecThreads == InitThreads /\ [][ThreadsNext]_vars

\* the bus alone, the bots around it not started
InitBus == Init /\ kind = "mirror" /\ prefill.target = 0

SpecBus == InitBus /\ [][BusNext]_vars

SpecRing == InitBus /\ [][RingNext]_vars

InitTrader == Init /\ kind = "mirror" /\ prefill.target = 0

SpecTrader == InitTrader /\ [][TraderNext]_vars

SpecPool == InitTrader /\ [][PoolNext]_vars

InitKernel ==
    /\ MonitorInit /\ PortfolioInit /\ ThreadsInit /\ BusInit /\ TraderInit
    /\ kind = "mirror" /\ prefill.target = 0
    /\ KernelDraw /\ FeedInit /\ EdgeInit /\ ScanInit /\ LoopsInit
    /\ CycleInit /\ ArbInit /\ FootballInit /\ PollerInit

SpecKernel == InitKernel /\ [][KernelNext]_vars

SpecFeed == InitBus /\ [][FeedNext]_vars

SpecEdge == InitBus /\ [][EdgeNext]_vars

SpecEdgeThreads == InitBus /\ [][EdgeThreadsNext]_vars

SpecCycle == InitBus /\ [][CycleNext]_vars

SpecArb == InitBus /\ [][ArbNext]_vars

SpecResetRace == InitBus /\ [][ResetRaceNext]_vars

\* the same threads when the reset never runs inside a poll
ResetQuietNext ==
    \/ \E a \in Addrs, positions \in Payloads :
         poller.reset_pc = "idle" /\ ProcBegin(a, positions)
    \/ BaselineMap
    \/ BaselineFlag
    \/ ProcDiff
    \/ ProcCallback
    \/ ProcEnd
    \/ poller.pc = "idle" /\ ResetBegin
    \/ ResetFinish

SpecResetQuiet == InitBus /\ [][ResetQuietNext]_vars

SpecFootball == InitBus /\ [][FootballNext]_vars

SpecLoops == InitBus /\ [][LoopsNext]_vars

\* every thread that was started keeps running: start() goes on to its next
\* statement, a loop tests its flag, and polls, scans and sleeps return
SpecLoopsFair ==
    /\ SpecLoops
    /\ WF_vars(MonitorStart)
    /\ WF_vars(MirrorStartFlag)
    /\ WF_vars(MirrorStartMonitor)
    /\ WF_vars(MirrorStartUpdater)
    /\ WF_vars(DataFeedStartFlag)
    /\ WF_vars(DataFeedStartThreads)
    /\ \A l \in LoopNames : WF_vars(LoopCheck(l))
    /\ \A l \in LoopNames : WF_vars(LoopBody(l))

SpecScan == InitBus /\ [][ScanNext]_vars

\* the main thread keeps submitting, pool threads keep taking work and
\* entering a free semaphore, and every order-book request returns or raises
SpecScanFair ==
    /\ SpecScan
    /\ WF_vars(SubmitPair)
    /\ WF_vars(Dequeue)
    /\ \A ex \in Exchanges : WF_vars(Acquire(ex))
    /\ \A ex \in Exchanges : WF_vars(\E fetched \in BOOLEAN : FetchReturns(ex, fetched))

\* the portfolio under its callers
Next == PortfolioNext

Spec == Init /\ [][Next]_vars

\* the monitor polling, its callbacks not yet connected to a portfolio
MonitorNext ==
    \/ \E a \in Addrs, positions \in Payloads : PollSuccess(a, positions)
    \/ \E a \in Addrs : PollFailure(a)
    \/ ResetAll

InitMonitor == Init /\ kind = "mirror" /\ prefill.target = 0

SpecMonitor == InitMonitor /\ [][MonitorNext]_vars

SpecHealth == InitMonitor /\ [][HealthNext]_vars

\* the poll loop over a roster of two addresses (add_address was called twice)
Roster == {"a1", "a2"}

RosterInit ==
    /\ addresses = [a \in Roster |-> NewWatchedAddress]
    /\ calls = <<>>
    /\ last_poll = NoPoll
    /\ clock = 0
    /\ poll_log = [a \in Roster |-> NoFailures]

InitRoster ==
    /\ RosterInit /\ PortfolioInit /\ ThreadsInit /\ BusInit /\ TraderInit
    /\ kind = "mirror" /\ prefill.target = 0
    /\ KernelInit /\ FeedInit /\ EdgeInit /\ ScanInit /\ LoopsInit
    /\ CycleInit /\ ArbInit /\ FootballInit /\ PollerInit

MaxRosterTicks == 4

RosterTick ==
    /\ clock < MaxRosterTicks * POLL_INTERVAL
    /\ clock' = clock + POLL_INTERVAL
    /\ UNCHANGED <<addresses, calls, last_poll, poll_log,
                   pvars, inflight, bvars, tvars, xvars, yvars>>

RosterNext ==
    \/ \E a \in Roster, positions \in HealthPayloads : LoopSuccess(a, positions)
    \/ \E a \in Roster : LoopError(a)
    \/ \E a \in Roster : LoopRateLimited(a)
    \/ RosterTick

SpecRoster == InitRoster /\ [][RosterNext]_vars

SpecFetch == InitMonitor /\ [][FetchNext]_vars

SpecCallbacks == InitMonitor /\ [][CallbacksNext]_vars

SpecRetry == InitMonitor /\ [][RetryNext]_vars

InitHistory == Init /\ prefill.target = 0

SpecHistory == InitHistory /\ [][HistoryNext]_vars

(***************************************************************************)
(* Properties of the AddressMonitor (checked under SpecMonitor)            *)
(***************************************************************************)
\* the address of the most recent poll, as it is now
Polled == addresses[last_poll.addr]

\* token ids of a payload: the non-empty "asset" values
PayloadIds(payload) == {payload[i].asset : i \in DOMAIN payload} \ {NoAsset}

\* m holds one entry per token id of the payload, the last one reported for it
StoredFrom(m, payload) ==
    /\ Keys(m) = PayloadIds(payload)
    /\ Len(m) = Cardinality(Keys(m))
    /\ \A i \in DOMAIN m :
          \E j \in DOMAIN payload :
              /\ m[i] = payload[j]
              /\ \A k \in DOMAIN payload : payload[k].asset = m[i].asset => k <= j

\* C1: the first successful poll of an address (is_initialized false before
\* it) invokes no opened and no closed callback whatever the API returned,
\* stores the returned positions as last_positions and leaves
\* is_initialized = true, last_poll_new = 0 and last_poll_closed = 0.
C1_BaselineRule ==
    (last_poll.outcome = "ok" /\ ~last_poll.was_initialized) =>
        /\ calls = <<>>
        /\ StoredFrom(Polled.last_positions, last_poll.payload)
        /\ Polled.is_initialized
        /\ Polled.last_poll_new = 0
        /\ Polled.last_poll_closed = 0

\* a baseline poll that returned as many distinct positions as a payload holds
C1_Witness ==
    /\ last_poll.outcome = "ok" /\ ~last_poll.was_initialized
    /\ Len(Polled.last_positions) >= 2
    /\ Len(Polled.last_positions) = Len(last_poll.payload)

CallsOf(k, tid) == {i \in DOMAIN calls : calls[i].kind = k /\ calls[i].token = tid}

\* C2: on a successful poll after the baseline the opened callback is invoked
\* exactly once per token id in the new snapshot and not in last_positions,
\* the closed callback exactly once per token id in last_positions and not in
\* the new snapshot, nothing is invoked for ids in both, every opened callback
\* precedes every closed callback, and last_positions is the new snapshot.
C2_DiffRule ==
    (last_poll.outcome = "ok" /\ last_poll.was_initialized) =>
        LET new == PayloadIds(last_poll.payload)
            old == Keys(last_poll.old_map)
        IN /\ \A tid \in new \ old : Cardinality(CallsOf("opened", tid)) = 1
           /\ \A tid \in old \ new : Cardinality(CallsOf("closed", tid)) = 1
           /\ \A i \in DOMAIN calls :
                 \/ calls[i].kind = "opened" /\ calls[i].token \in new \ old
                 \/ calls[i].kind = "closed" /\ calls[i].token \in old \ new
           /\ \A i, j \in DOMAIN calls :
                 (calls[i].kind = "opened" /\ calls[j].kind = "closed") => i < j
           /\ StoredFrom(Polled.last_positions, last_poll.payload)

\* a poll after the baseline that saw one position appear, one disappear and
\* one stay
C2_Witness ==
    /\ last_poll.outcome = "ok" /\ last_poll.was_initialized
    /\ \E i, j \in DOMAIN calls : calls[i].kind = "opened" /\ calls[j].kind = "closed"
    /\ Keys(last_poll.old_map) \cap Keys(Polled.last_positions) # {}

(***************************************************************************)
(* Properties of the portfolios (checked under Spec)                       *)
(***************************************************************************)
RECURSIVE SumOver(_, _, _)
SumOver(f, S, field) ==
    IF S = {} THEN 0
    ELSE LET t == CHOOSE x \in S : TRUE
         IN (IF field = "deployed" THEN f[t].usdc_deployed ELSE UnrealizedPnl(f[t]))
            + SumOver(f, S \ {t}, field)

\* sum of usdc_deployed over the open positions, in USDC
SumDeployed(p) == SumOver(p.positions, Open(p), "deployed")

\* sum of (current_price - entry_price) * shares over the open positions,
\* in 10^-5 USDC
SumUnrealized(p) == SumOver(p.positions, Open(p), "unrealized")

\* balance + sum of usdc_deployed
Committed(p) == MAdd(p.balance, Usdc(SumDeployed(p)))

\* C3: in every reachable state of either portfolio at most 40 positions are
\* open and the free balance is at least 0.
C3_SlotsAndBalance ==
    /\ Cardinality(Open(portfolio)) <= SLOTS
    /\ MLeq(Usdc(0), portfolio.balance)

MirrorCall(op) == kind = "mirror" /\ last_call'.op = op

NoDuplicates ==
    /\ Open(portfolio) \cap Queued(portfolio) = {}
    /\ \A i, j \in DOMAIN portfolio.queue :
          portfolio.queue[i].token_id = portfolio.queue[j].token_id => i = j

DuplicateOpenDropped ==
    (MirrorCall("open") /\ last_call'.token \in Open(portfolio) \cup Queued(portfolio))
        => UNCHANGED <<portfolio, stats>>

\* C5: in the mirror portfolio no token id is both an open position and a
\* queued trade and none occurs twice in the queue; open_position for a token
\* id that is already open or queued changes neither the portfolio (balance,
\* positions, queue) nor the source's stats.
C5_Dedup == [](kind = "mirror" => NoDuplicates) /\ [][DuplicateOpenDropped]_vars

\* open_position was called for a token id that is open and returned nothing
C5_Witness ==
    /\ kind = "mirror"
    /\ last_call.op = "open" /\ last_call.ret = "none"
    /\ last_call.token \in Open(portfolio)

OpenOutcome ==
    (MirrorCall("open") /\ last_call'.token # NoAsset) =>
        LET t == last_call'.token
        IN IF t \in Open(portfolio) \cup Queued(portfolio)
           THEN UNCHANGED <<portfolio, stats>> /\ last_call'.ret = "none"
           ELSE IF /\ Cardinality(Open(portfolio)) < SLOTS
                   /\ MLeq(Usdc(SLOT_SIZE_USDC), portfolio.balance)
           THEN /\ last_call'.ret = "position"
                /\ Open(portfolio') = Open(portfolio) \cup {t}
                /\ portfolio'.positions[t].usdc_deployed = SLOT_SIZE_USDC
                /\ \A u \in Open(portfolio) : portfolio'.positions[u] = portfolio.positions[u]
                /\ MAdd(portfolio'.balance, Usdc(SLOT_SIZE_USDC)) = portfolio.balance
                /\ stats' = [stats EXCEPT !.trades_mirrored = @ + 1]
                /\ portfolio'.queue = portfolio.queue
           ELSE /\ last_call'.ret = "none"
                /\ Len(portfolio'.queue) = Len(portfolio.queue) + 1
                /\ SubSeq(portfolio'.queue, 1, Len(portfolio.queue)) = portfolio.queue
                /\ portfolio'.queue[Len(portfolio'.queue)].token_id = t
                /\ portfolio'.balance = portfolio.balance
                /\ portfolio'.positions = portfolio.positions
                /\ stats' = stats

\* C6: mirror open_position for a non-empty token id does one of three
\* things: the token is open or queued and the call is dropped; else fewer
\* than 40 positions are open and balance >= 500, and a position with
\* usdc_deployed = 500 is created, balance drops by exactly 500,
\* trades_mirrored rises by 1 and the queue is unchanged; else one QueuedTrade
\* is appended at the tail and balance, positions and stats are unchanged.
C6_ThreeOutcomes == [][OpenOutcome]_vars

\* a trade was queued although a slot was free, because balance < 500
C6_Witness ==
    /\ kind = "mirror"
    /\ last_call.op = "open" /\ last_call.ret = "none"
    /\ last_call.token \in Queued(portfolio)
    /\ Cardinality(Open(portfolio)) < SLOTS
    /\ MLess(portfolio.balance, Usdc(SLOT_SIZE_USDC))

\* number of queued trades the step opened
Taken == Len(portfolio.queue) - Len(portfolio'.queue)

Drained ==
    (MirrorCall("close") /\ last_call'.ret = "resolved") =>
        LET t == last_call'.token
            n == Taken
        IN /\ n \in 0..Len(portfolio.queue)
           /\ portfolio'.queue = SubSeq(portfolio.queue, n + 1, Len(portfolio.queue))
           /\ Open(portfolio') =
                  (Open(portfolio) \ {t}) \cup {portfolio.queue[i].token_id : i \in 1..n}
           /\ \A i \in 1..n :
                 portfolio'.positions[portfolio.queue[i].token_id].entry_price
                     = portfolio.queue[i].entry_price
           /\ \/ portfolio'.queue = <<>>
              \/ Cardinality(Open(portfolio')) >= SLOTS
              \/ MLess(portfolio'.balance, Usdc(SLOT_SIZE_USDC))
           /\ (/\ portfolio.starting_balance = STARTING_BALANCE
               /\ Cardinality(Open(portfolio)) = SLOTS
               /\ portfolio.queue # <<>>
               /\ portfolio'.resolved[1].exit_price = portfolio.positions[t].entry_price)
                  => /\ n = 1
                     /\ Head(portfolio.queue).token_id \in Open(portfolio')
                     /\ Cardinality(Open(portfolio')) = SLOTS

QueueWaitsForCause ==
    (kind = "mirror" /\ portfolio.queue # <<>>) =>
        \/ Cardinality(Open(portfolio)) >= SLOTS
        \/ MLess(portfolio.balance, Usdc(SLOT_SIZE_USDC))

\* C7: a mirror close_position_by_token that closes a position opens queued
\* trades oldest first until the queue is empty, 40 positions are open or
\* balance < 500; with 40 open positions and a non-empty queue a close at the
\* entry price opens the head of the queue, shortens the queue by exactly one
\* and leaves 40 open; and in every state a non-empty queue implies 40 open
\* positions or balance < 500.
C7_QueueDrain == []QueueWaitsForCause /\ [][Drained]_vars

\* a close at the entry price with all slots taken and two trades queued has
\* just opened the older one
C7_Witness ==
    /\ kind = "mirror"
    /\ last_call.op = "close" /\ last_call.ret = "resolved"
    /\ portfolio.resolved[1].exit_price = portfolio.resolved[1].entry_price
    /\ Cardinality(Open(portfolio)) = SLOTS
    /\ portfolio.queue # <<>>
    /\ Cardinality(Open(portfolio)) + Len(portfolio.resolved) > stats.trades_mirrored

NoOpClose ==
    (last_call'.op = "close" /\ last_call'.token \notin Open(portfolio)) =>
        /\ last_call'.ret = "none"
        /\ UNCHANGED <<portfolio, stats>>

\* C8: close_position_by_token for a token id without an open position
\* returns nothing and leaves balance, realized_pnl, positions, queue (a
\* queued trade of that token stays queued, nothing is drained), resolved
\* history and the source's stats unchanged, in both portfolios.
C8_CloseNoOp == [][NoOpClose]_vars

\* close_position_by_token was called for a token id that waits in the queue
C8_Witness ==
    /\ last_call.op = "close" /\ last_call.ret = "none"
    /\ last_call.token \in Queued(portfolio)

RoundTrip ==
    (/\ last_call.op = "open" /\ last_call.ret = "position"
     /\ last_call'.op = "close" /\ last_call'.ret = "resolved"
     /\ last_call'.token = last_call.token
     /\ portfolio'.resolved[1].exit_price = portfolio.positions[last_call.token].entry_price)
        => /\ portfolio'.balance = last_call.balance_before
           /\ portfolio'.realized_pnl = last_call.realized_before
           /\ portfolio'.resolved[1].result = "PUSH"
           /\ stats'.wins = stats.wins /\ stats'.losses = stats.losses

\* C9: an open_position that opens a position, directly followed by
\* close_position_by_token of that token at an exit price equal to the entry
\* price, leaves balance and realized_pnl at their values before the open;
\* the trade is classified PUSH and no win or loss is counted.
C9_RoundTrip == [][RoundTrip]_vars

\* such a round trip has just completed, on a portfolio that had realized a
\* profit or a loss before
C9_Witness ==
    /\ last_call.op = "close" /\ last_call.after_open
    /\ portfolio.resolved[1].exit_price = portfolio.resolved[1].entry_price
    /\ portfolio.realized_pnl # Usdc(0)

(***************************************************************************)
(* Resolved history (checked under SpecHistory)                            *)
(***************************************************************************)
MostRecentFirst(resolved) ==
    \A i, j \in DOMAIN resolved : i < j => resolved[i].resolved_at > resolved[j].resolved_at

\* C10: in both portfolios the stored resolved history is ordered
\* most-recent-first and never holds more than 50 entries; the 51st close
\* evicts the oldest entry.
C10_History ==
    /\ MostRecentFirst(portfolio.resolved)
    /\ Len(portfolio.resolved) <= RESOLVED_CAP
    /\ (now > RESOLVED_CAP => portfolio.resolved[RESOLVED_CAP].resolved_at > 1)

(***************************************************************************)
(* Properties of the portfolio's threads (checked under SpecThreads)       *)
(***************************************************************************)
\* C11: open_position / close_position_by_token, update_prices and reset are
\* serialized: whenever no call is in progress the portfolio is in a state
\* that some sequential order of the calls yields, so it satisfies what every
\* sequential run satisfies: balance + sum of usdc_deployed =
\* starting_balance + realized_pnl.
C11_Serialized ==
    inflight = Idle =>
        Committed(portfolio) = MAdd(Usdc(portfolio.starting_balance), portfolio.realized_pnl)

(***************************************************************************)
(* Properties of the EventBus (checked under SpecBus and SpecRing)         *)
(***************************************************************************)
Range(seq) == {seq[i] : i \in DOMAIN seq}

\* place of an event in the order of the locked appends
LogPos(event) == CHOOSE i \in DOMAIN clients.log : clients.log[i] = event

\* what handler h has been sent live, followed by what waits in its queue
LiveStream(h) == clients.handlers[h].live \o bus.queues[h]

\* C12: for a handler that subscribes, replays get_history and then consumes
\* its queue, an event reaches it through the replay or through the live
\* stream, never through both: no event is delivered to it twice.
C12_ReplayLivePartition ==
    \A h \in Handles :
        Range(clients.handlers[h].replayed) \cap Range(clients.handlers[h].live) = {}

\* C13: every subscriber's live queue receives the events in the relative
\* order in which they were appended to the history under the lock.
C13_PublishOrder ==
    \A h \in Handles :
        \A i, j \in DOMAIN LiveStream(h) :
            i < j => LogPos(LiveStream(h)[i]) < LogPos(LiveStream(h)[j])

\* the last n elements of a sequence (all of it when it is shorter)
LastOf(seq, n) ==
    IF Len(seq) <= n THEN seq ELSE SubSeq(seq, Len(seq) - n + 1, Len(seq))

HistoryIsRing == GetHistory(bus) = LastOf(clients.log, HISTORY_SIZE)

SubscribersKeepHistory ==
    (bus'.subscribers # bus.subscribers \/ clients'.handlers # clients.handlers)
        => bus'.history = bus.history

\* C14: after any sequence of publish calls get_history returns the most
\* recent min(n, 300) published events in publish order, the oldest evicted
\* first; subscribe and unsubscribe never change the history.
C14_RingBuffer == []HistoryIsRing /\ [][SubscribersKeepHistory]_vars

\* more than 300 events were published and a subscriber is attached
C14_Witness ==
    /\ Len(clients.log) > HISTORY_SIZE
    /\ bus.subscribers # <<>>

\* C15: each subscriber queue is bounded and a publish on a full queue drops
\* that queue's oldest payload: with any capacity below the number of events
\* the producers publish, no queue ever holds all of them.
C15_BoundedQueue ==
    \A h \in Handles : Len(bus.queues[h]) < MaxPublish

UnsubscribeStep ==
    \A h \in Handles :
        Unsubscribe(h) =>
            /\ bus'.subscribers = SelectSeq(bus.subscribers, LAMBDA g : g # h)
            /\ bus'.history = bus.history
            /\ bus'.queues = bus.queues
            /\ h \notin Range(bus.subscribers) => bus' = bus

\* C16: unsubscribe with a handle that is not subscribed (a second call, or a
\* handle never subscribed) raises nothing and leaves the subscriber list and
\* the history as they are; a first call removes just that handle, so the
\* other subscribers stay attached.
C16_UnsubscribeIdempotent == [][UnsubscribeStep]_vars

\* one handler has unsubscribed; the other, still attached, holds an event
\* the first never got
C16_Witness ==
    /\ clients.handlers[1].pc = "closed"
    /\ 2 \in Range(bus.subscribers)
    /\ \E e \in Range(bus.queues[2]) :
          e \notin Range(bus.queues[1]) \cup Range(clients.handlers[1].live)

(***************************************************************************)
(* Properties of the PaperTrader (checked under SpecTrader and SpecPool)   *)
(***************************************************************************)
\* the gates, evaluated on the inputs of a call c and the state it started from
RiskTrips(c) == c.opp.yes_cost_usdc + c.opp.no_cost_usdc > max_risk

BalanceTrips(c) ==
    c.before.balance_usdc < c.opp.yes_cost_usdc + c.opp.no_cost_usdc

LiquidityTrips(c) ==
    c.book.yes_liq < min_liquidity \/ c.book.no_liq < min_liquidity

Unfetched(c) == c.book.live_yes = NoAsk \/ c.book.live_no = NoAsk

SlippageTrips(c) ==
    /\ ~Unfetched(c)
    /\ \/ Slipped(c.book.live_yes, c.opp.yes_ask)
       \/ Slipped(c.book.live_no, c.opp.no_ask)

EvaporatedTrips(c) ==
    ~Unfetched(c) /\ c.book.live_yes + c.book.live_no >= 100

AbortCodes ==
    {"ABORTED_RISK", "ABORTED_BALANCE", "ABORTED_LIQUIDITY",
     "ABORTED_SLIPPAGE", "ABORTED_ARB_EVAPORATED"}

\* C17 as stated: every outcome of execute other than SUCCESS is one of the
\* five abort codes of the five gates.
C17_AsStated == trader.last.outcome \in {"NONE", "SUCCESS"} \cup AbortCodes

\* C17 amended: execute returns the code of the first check that trips, the
\* checks being, in order, risk cap, balance, YES/NO liquidity, a live ask
\* that could not be re-fetched (ERROR), YES/NO slippage, evaporated
\* arbitrage; SUCCESS is returned exactly when none of the six trips.
C17_GateOrder ==
    LET c == trader.last
        early == RiskTrips(c) \/ BalanceTrips(c) \/ LiquidityTrips(c)
    IN  c.outcome # "NONE" =>
        /\ c.outcome \in {"SUCCESS", "ERROR"} \cup AbortCodes
        /\ c.outcome = "ABORTED_RISK" <=> RiskTrips(c)
        /\ c.outcome = "ABORTED_BALANCE" <=> ~RiskTrips(c) /\ BalanceTrips(c)
        /\ c.outcome = "ABORTED_LIQUIDITY" <=>
               ~RiskTrips(c) /\ ~BalanceTrips(c) /\ LiquidityTrips(c)
        /\ c.outcome = "ERROR" <=> ~early /\ Unfetched(c)
        /\ c.outcome = "ABORTED_SLIPPAGE" <=> ~early /\ SlippageTrips(c)
        /\ c.outcome = "ABORTED_ARB_EVAPORATED" <=>
               ~early /\ ~SlippageTrips(c) /\ EvaporatedTrips(c)
        /\ c.outcome = "SUCCESS" <=>
               /\ ~early
               /\ ~Unfetched(c)
               /\ ~SlippageTrips(c)
               /\ ~EvaporatedTrips(c)

\* a call stopped by the balance gate although the later checks trip too
C17_Witness ==
    /\ trader.last.outcome = "ABORTED_BALANCE"
    /\ LiquidityTrips(trader.last)
    /\ Unfetched(trader.last)

\* a step that is one whole call of execute ending in an abort
AbortedCall ==
    /\ trader'.calls = trader.calls + 1
    /\ trader'.last.outcome # "SUCCESS"

AbortFrame ==
    AbortedCall =>
        LET old == trader.state
            new == trader'.state
            saved == Parse(trader'.file.text)
        IN  /\ new.balance_usdc = old.balance_usdc
            /\ new.total_profit_usdc = old.total_profit_usdc
            /\ new.trades_executed = old.trades_executed
            /\ new.opportunities_seen = old.opportunities_seen + 1
            /\ new.trades_aborted = old.trades_aborted + 1
            /\ trader'.file.exists
            /\ saved.balance_usdc = old.balance_usdc
            /\ saved.total_profit_usdc = old.total_profit_usdc
            /\ saved.trades_executed = old.trades_executed
            /\ saved.opportunities_seen = old.opportunities_seen + 1
            /\ saved.trades_aborted = old.trades_aborted + 1

\* C18: a call of execute that ends in an abort leaves balance_usdc,
\* total_profit_usdc and trades_executed as they were, in memory and in the
\* state file, and adds exactly 1 to opportunities_seen and to trades_aborted.
C18_AbortFrame == [][AbortFrame]_vars

\* two aborted calls in a row over a state file of an earlier run
C18_Witness ==
    /\ trader.last.outcome \in AbortCodes
    /\ trader.file.exists
    /\ trader.start.opportunities_seen > 0
    /\ trader.state.trades_aborted = trader.start.trades_aborted + 2
    /\ trader.state.trades_executed = trader.start.trades_executed

\* C19: when every pool thread has returned from execute, no increment of
\* opportunities_seen has been lost: the counter has grown by the number of
\* calls, as it does in every sequential order of the calls.
C19_NoLostUpdate ==
    (trader.constructed /\ \A w \in Workers : workers[w].pc = "idle") =>
        trader.state.opportunities_seen
            = trader.start.opportunities_seen + trader.calls

FileIsMemory ==
    /\ trader.calls > 0 => trader.file.exists
    /\ (trader.constructed /\ trader.file.exists) =>
           Parse(trader.file.text) = trader.state

StartStep ==
    (~trader.constructed /\ trader'.constructed) =>
        trader'.state = IF trader'.file.exists
                        THEN trader'.start
                        ELSE FreshState(StartingBalanceUsdc)

RestartStep ==
    (trader.constructed /\ trader'.calls = trader.calls) =>
        trader'.state = trader.state

\* C20: after every call of execute the state file holds exactly the state
\* in memory; a PaperTrader constructed over a state file starts from the
\* values of the file, one constructed without it from the configured
\* starting balance and counters 0; starting again over the file that was
\* saved gives back the state that was saved.
C20_Persistence ==
    []FileIsMemory /\ [][StartStep]_vars /\ [][RestartStep]_vars

\* a fill over the state file of an earlier run, written back
C20_Witness ==
    /\ trader.last.outcome = "SUCCESS"
    /\ trader.start.opportunities_seen = 3
    /\ trader.calls > 1
    /\ Parse(trader.file.text) = trader.state

(***************************************************************************)
(* Properties of the arbitrage kernel (checked under SpecKernel)           *)
(***************************************************************************)
FLeq(x, y) == ~FLess(y, x)

\* C21: the kernel returns none when the combined ask is >= 1 or the profit
\* percentage is below the threshold; an opportunity it returns has a
\* combined ask < 1, shares = min(max_trade/yes_ask, max_trade/no_ask,
\* max_risk/combined), a cost per side of at most max_trade_size and a cost
\* of both sides of at most max_risk; the same arguments give the same result.
C21_Kernel ==
    LET a == kernel.args
        opp == kernel.result
        combined == FAdd(a.yes_ask, a.no_ask)
        profit_pct == FMul(FDiv(FSub(Dec(1, 1), combined), combined),
                           Dec(100, 1))
    IN  kernel.quotes > 0 =>
        /\ kernel.result = kernel.first
        /\ (~FLess(combined, Dec(1, 1)) \/ FLess(profit_pct, a.min_profit_pct))
               => ~opp.found
        /\ opp.found =>
               /\ FLess(FAdd(opp.yes_ask, opp.no_ask), Dec(1, 1))
               /\ opp.shares =
                      FMin(FMin(FDiv(a.max_trade_size_usdc, a.yes_ask),
                                FDiv(a.max_trade_size_usdc, a.no_ask)),
                           FDiv(a.max_risk_per_trade_usdc, combined))
               /\ FLeq(FMul(opp.shares, opp.yes_ask), a.max_trade_size_usdc)
               /\ FLeq(FMul(opp.shares, opp.no_ask), a.max_trade_size_usdc)
               /\ FLeq(FMul(opp.shares, combined), a.max_risk_per_trade_usdc)

(***************************************************************************)
(* Health of a watched address (checked under SpecHealth)                  *)
(***************************************************************************)
\* the address has just been polled with success
JustPolledOk(a) ==
    /\ last_poll.addr = a
    /\ last_poll.outcome = "ok"
    /\ addresses[a].last_poll_ts = clock

\* C22: consecutive_failures >= 5 implies health = stale, a rate limit that
\* has not expired implies health = rate_limited, and after a successful
\* poll the health of the address is ok.
C22_HealthInvariants ==
    \A a \in Addrs :
        LET cfg == addresses[a] IN
        /\ cfg.consecutive_failures >= 5 => health(cfg, clock) = "stale"
        /\ (cfg.rate_limited_until # NoTime /\ clock < cfg.rate_limited_until)
               => health(cfg, clock) = "rate_limited"
        /\ JustPolledOk(a) => health(cfg, clock) = "ok"

\* C23: an address is stale only after five consecutive failed polls that
\* were not 429 answers, and a successful poll sets consecutive_failures to
\* 0 and takes the address out of stale.
C23_StaleTransition ==
    \A a \in Addrs :
        /\ is_stale(addresses[a]) => poll_log[a].errors >= 5
        /\ JustPolledOk(a) =>
               /\ addresses[a].consecutive_failures = 0
               /\ ~is_stale(addresses[a])

(***************************************************************************)
(* Malformed payloads and raising callbacks (SpecFetch, SpecCallbacks)     *)
(***************************************************************************)
\* C24: when the endpoint answers an initialized address with an object
\* that has no positions array, or with a body that is not JSON, no callback
\* fires and last_positions and is_initialized are as before the poll.
C24_MalformedPayload ==
    (/\ last_poll.addr # "none"
     /\ last_poll.sent \in {"object", "unparsable"}
     /\ last_poll.was_initialized)
        => /\ calls = <<>>
           /\ Polled.last_positions = last_poll.old_map
           /\ Polled.is_initialized

WithoutRaised(cbs) ==
    [i \in 1..Len(cbs) |->
        [kind |-> cbs[i].kind, token |-> cbs[i].token, pos |-> cbs[i].pos]]

\* C25: whichever callbacks raise, every opened and closed callback of the
\* poll is invoked, last_positions is the new snapshot and the poll counts
\* as successful (consecutive_failures = 0).
C25_CallbackIsolation ==
    (last_poll.outcome = "ok" /\ last_poll.was_initialized) =>
        /\ WithoutRaised(calls)
               = DiffCalls(NewMap(last_poll.payload), last_poll.old_map)
        /\ Polled.last_positions = NewMap(last_poll.payload)
        /\ Polled.consecutive_failures = 0

\* an opened callback raised and a closed callback ran after it
C25_Witness ==
    /\ last_poll.outcome = "ok"
    /\ \E i, j \in 1..Len(calls) :
           /\ i < j
           /\ calls[i].raised /\ calls[i].kind = "opened"
           /\ calls[j].kind = "closed"

(***************************************************************************)
(* Properties of the DataFeedBot (checked under SpecFeed)                  *)
(***************************************************************************)
\* C26: of two events with the same dedup key handled within 90 s of each
\* other at most one passes the dedup check and is delivered.
C26_Dedup ==
    \A i, j \in 1..Len(feed.delivered) :
        (i < j /\ feed.delivered[i].key = feed.delivered[j].key)
            => feed.delivered[j].at - feed.delivered[i].at > DEDUP_TTL_S

\* C27: every measurement recorded by poll_pending has a latency of at most
\* 120 s and a price that moved by at least 0.02 from the price at detection,
\* whenever the price response arrives.
C27_EdgeMeasurements ==
    \A i \in DOMAIN edge.measurements :
        /\ edge.measurements[i].latency_s <= MAX_TRACK_WINDOW_S
        /\ AbsDiff(edge.measurements[i].price_after_move,
                   edge.measurements[i].price_at_detection) >= 2

\* C28: when a scan completes, the published health of an exchange is true
\* exactly when at least one of the scan's order-book fetches on that
\* exchange succeeded.
C28_ExchangeHealth ==
    scan.pc = "published" =>
        \A ex \in Exchanges :
            scan.health[ex] = scan.succeeded[ex]

InFlightBounded ==
    /\ \A ex \in Exchanges : scan.fetching[ex] <= CONCURRENCY
    /\ scan.fetching["coinbase"] + scan.fetching["kraken"] <= 2 * CONCURRENCY

Submitted(ex) ==
    IF ex = "coinbase" THEN (scan.submitted + 1) \div 2 ELSE scan.submitted \div 2

AllReleased ==
    \A ex \in Exchanges :
        /\ Acquired(ex) = Submitted(ex)
        /\ scan.returned[ex] = Submitted(ex)
        /\ scan.sem[ex] = CONCURRENCY

\* C29: at every moment of a scan at most 5 fetches hold the semaphore of an
\* exchange (at most 10 overall), and once the scan has stopped submitting,
\* every submitted fetch has eventually acquired and released the semaphore
\* of its exchange, whether it succeeded or raised.
C29_FetchConcurrency ==
    /\ []InFlightBounded
    /\ (scan.pc \in {"collecting", "returned"}) ~> AllReleased

\* five fetches hold the coinbase semaphore and a sixth waits for it, after
\* a kraken fetch has raised and given its semaphore back
C29_Witness ==
    /\ scan.fetching["coinbase"] = CONCURRENCY
    /\ scan.waiting["coinbase"] > 0
    /\ ~scan.health_now["kraken"]
    /\ scan.fetching["kraken"] = 0

StopOnlyClearsFlag ==
    \A b \in Bots :
        (~loops.stopped[b] /\ loops'.stopped[b]) =>
            /\ loops'.pc = loops.pc
            /\ loops'.starter = loops.starter
            /\ \A f \in StopClears(b) : ~loops'.running[f]

ExitedStays ==
    \A l \in LoopNames : loops.pc[l] = "exited" => loops'.pc[l] = "exited"

\* C30: stop() of a bot only clears its running flag; afterwards each loop of
\* the bot eventually exits at a test of its loop condition and starts no
\* round after that, given that polls, scans and sleeps return.
C30_Shutdown ==
    /\ [][StopOnlyClearsFlag /\ ExitedStays]_vars
    /\ \A b \in Bots :
         loops.stopped[b] ~> (\A l \in LoopNames :
                                 BotOf(l) = b => loops.pc[l] = "exited")

\* a scan that has just completed checked every candidate, invoked the
\* callback for every candidate whose books confirmed an arbitrage, and
\* failed exactly the candidates whose check raised
ScanContained ==
    (cycle.pc \in {"stage2", "unwinding"} /\ cycle'.pc = "sleep") =>
        /\ cycle.pc = "stage2"
        /\ cycle'.pending = {}
        /\ cycle'.called =
             {m \in DOMAIN cycle.candidates :
                cycle.candidates[m] \in {"arb", "callback_raises"}}
        /\ cycle'.failed =
             {m \in DOMAIN cycle.candidates :
                cycle.candidates[m] \notin {"arb", "no_arb"}}

\* after a scan, failed or not, the loop sleeps and comes back to its test
LoopGoesOn ==
    /\ cycle.pc = "sleep" => cycle'.pc = "loop"
    /\ cycle.pc = "loop" => cycle'.pc \in {"stage2", "sleep"}

\* each scan begins one polling interval after the one before it ended
ScansSpaced ==
    \A i \in DOMAIN cycle.log :
        /\ cycle.log[i].began <= cycle.log[i].ended
        /\ i > 1 => cycle.log[i].began = cycle.log[i - 1].ended + POLLING_INTERVAL

\* C31: an exception raised while one candidate is checked in stage 2 fails
\* only that market: the other candidates are still checked and their
\* confirmed opportunities reach the callback; no exception in a scan ends
\* the monitor loop, and the next scan begins one polling interval after the
\* previous scan completed.
C31_ErrorContainment ==
    /\ []ScansSpaced
    /\ [][ScanContained /\ LoopGoesOn]_vars

\* two scans have completed, the first overran the polling interval, and in
\* the second one market raised in its order-book fetch while the other
\* market's opportunity reached the callback
C31_Witness ==
    /\ Len(cycle.log) = 2
    /\ cycle.pc = "sleep"
    /\ cycle.log[1].ended > cycle.log[1].began + POLLING_INTERVAL
    /\ \E m, n \in DOMAIN cycle.candidates :
         /\ cycle.candidates[m] = "fetch_raises"
         /\ cycle.candidates[n] = "arb"
         /\ n \in cycle.called /\ m \in cycle.failed

PolledNow(a) == addresses'[a].last_poll_ts # addresses[a].last_poll_ts

\* a poll answered with 429 starts a cooldown of 60 s, fires no callback and
\* keeps the baseline
CooldownStarts ==
    \A a \in Roster :
        (PolledNow(a) /\ last_poll'.outcome = "rate_limited") =>
            /\ addresses'[a].rate_limited_until = clock + RATE_LIMIT_PAUSE
            /\ calls' = <<>>
            /\ addresses'[a].last_positions = addresses[a].last_positions
            /\ addresses'[a].is_initialized = addresses[a].is_initialized

\* no address is polled while its cooldown lasts
CooldownRespected ==
    \A a \in Roster :
        PolledNow(a) => ~(addresses[a].rate_limited_until # NoTime
                           /\ clock < addresses[a].rate_limited_until)

\* an address whose cooldown is over (or that never had one) and whose poll
\* interval has passed can be polled, whatever the state of the other one
PollingResumes ==
    \A a \in Roster :
        (/\ addresses[a].rate_limited_until # NoTime
            => clock >= addresses[a].rate_limited_until
         /\ clock >= addresses[a].last_poll_ts + POLL_INTERVAL)
        => /\ ENABLED LoopSuccess(a, <<>>)
           /\ ENABLED LoopRateLimited(a)

AttemptsMade ==
    /\ last_poll.attempts \in 1..5
    /\ \A i \in 1..(last_poll.attempts - 1) : last_poll.answers[i] = "error"
    /\ last_poll.attempts < 5 => last_poll.answers[last_poll.attempts] # "error"
    /\ last_poll.outcome =
         (IF last_poll.answers[last_poll.attempts] = "error"
          THEN "failed" ELSE last_poll.answers[last_poll.attempts])

\* one wait after every failed attempt that is followed by another attempt:
\* 1, 2, 4, 8 s
WaitsMade ==
    /\ Len(last_poll.waits) =
         (IF last_poll.outcome = "failed" THEN 4 ELSE last_poll.attempts - 1)
    /\ \A i \in DOMAIN last_poll.waits :
         /\ last_poll.waits[i] = <<1, 2, 4, 8>>[i]
         /\ last_poll.waits[i] <= 32

MeasuredEdges == {edge.measurements[i].edge_no : i \in DOMAIN edge.measurements}

\* C34: an edge leaves the pending set together with exactly one measurement
\* or, once older than 120 s, without one: outside poll_pending no pending
\* edge has a measurement, no edge has two measurements, and an edge that is
\* neither pending nor measured was older than 120 s when it was dropped.
C34_EdgeLifecycle ==
    /\ \A i, j \in DOMAIN edge.measurements :
         edge.measurements[i].edge_no = edge.measurements[j].edge_no => i = j
    /\ edge.pc = "idle" =>
         \A i \in DOMAIN edge.pending : edge.pending[i].edge_no \notin MeasuredEdges


\* ---- C35 ----
ArbDirections ==
    { [buy_ex |-> "coinbase", sell_ex |-> "kraken"],
      [buy_ex |-> "kraken", sell_ex |-> "coinbase"] }

\* the entries of a list that the scan just finished has appended for d
OfThisScan(list, d) ==
    { i \in DOMAIN list : /\ list[i].ts = arb.scan_count
                          /\ list[i].buy_ex = d.buy_ex
                          /\ list[i].sell_ex = d.sell_ex }

RECURSIVE SumPnl(_, _)
SumPnl(list, is) ==
    IF is = {} THEN 0
    ELSE LET i == CHOOSE j \in is : TRUE IN list[i].pnl_usdc + SumPnl(list, is \ {i})

\* the balance when the scan reached direction d: coinbase buys come first
BalanceAt(d) ==
    arb.balance
      - SumPnl(arb.trades,
               { i \in DOMAIN arb.trades :
                   /\ arb.trades[i].ts = arb.scan_count
                   /\ (d.buy_ex = "coinbase" \/ arb.trades[i].buy_ex = "kraken") })

\* the conditions the rule names, on the books the scan fetched
RuleHolds(d) ==
    LET buy  == arb.books[d.buy_ex]
        sell == arb.books[d.sell_ex]
        pos  == Position([balance |-> BalanceAt(d)])
    IN  /\ buy.ok /\ sell.ok
        /\ buy.age <= min_book_age_s /\ sell.age <= min_book_age_s
        /\ buy.asks # <<>> /\ sell.bids # <<>>
        /\ sell.bids[1][1] > buy.asks[1][1]
        /\ Min3(vwap_buy(buy.asks, pos).fill, vwap_sell(sell.bids, pos).fill, pos)
             >= MIN_POSITION
        /\ NetPct(d.buy_ex, buy.asks, d.sell_ex, sell.bids, pos) >= min_profit_pct

BothSidesQuoted(book) == book.bids # <<>> /\ book.asks # <<>>

OneTradeEach ==
    /\ \A d \in ArbDirections :
         /\ Cardinality(OfThisScan(arb.trades, d))
              = Cardinality(OfThisScan(arb.opportunities, d))
         /\ Cardinality(OfThisScan(arb.opportunities, d)) <= 1
    /\ arb.opp_count = arb.trade_count
    /\ arb.balance - arb.realized_pnl = starting_balance

\* C35 (as stated): after a scan, a direction of the pair has an opportunity
\* recorded exactly when both books were fetched and fresh, the sell side's
\* best bid is above the buy side's best ask, min(buy_fill, sell_fill,
\* intended) is at least 10 USDC and net >= min_profit_pct; every recorded
\* opportunity has exactly one paper trade, opp_count = trade_count and
\* balance - realized_pnl is the starting balance.
C35_OpportunityRule ==
    arb.scan_count > 0 =>
      /\ \A d \in ArbDirections :
           OfThisScan(arb.opportunities, d) # {} <=> RuleHolds(d)
      /\ OneTradeEach

\* what the scan does instead: the rule applies only when each of the two
\* fetched books has at least one bid and at least one ask (line 283).
C35_OpportunityRuleQuoted ==
    arb.scan_count > 0 =>
      /\ \A d \in ArbDirections :
           OfThisScan(arb.opportunities, d) # {}
             <=> /\ BothSidesQuoted(arb.books.coinbase)
                 /\ BothSidesQuoted(arb.books.kraken)
                 /\ RuleHolds(d)
      /\ OneTradeEach

\* a second scan has recorded and traded an opportunity after an earlier one
C35_Witness ==
    /\ arb.scan_count = 2 /\ arb.trade_count = 2
    /\ \E d \in ArbDirections : OfThisScan(arb.opportunities, d) # {}
    /\ arb.balance > starting_balance


\* ---- C36 ----
Emitted(fid, event_type) ==
    Cardinality({ i \in DOMAIN football.events :
                    football.events[i] = make_event(fid, event_type) })

RedCardAtTail(fid) ==
    LET f == football.last_fixtures[fid] IN
    /\ Len(f.events) > Len(football.previous[fid].events)
    /\ f.events[Len(f.events)] = "Red Card"

\* C36: after a poll that reached the diff, for every fixture id: match_start
\* is emitted (once) exactly when the id is live now and was absent from the
\* previous snapshot; goal exactly when the fixture was in both and its home
\* or away score increased; red_card exactly when it was in both, its events
\* array grew and the new tail entry is a red card; match_end (once) exactly
\* when the id was in the previous snapshot and is absent now. A poll that
\* raised before the diff leaves the snapshot as it was and returns no event.
C36_FeedDiff ==
    /\ (football.polls > 0 /\ ~football.raised) =>
         \A fid \in FixtureIds :
           LET f == football.last_fixtures[fid]
               prev == football.previous[fid]
           IN  /\ Emitted(fid, "match_start") = (IF f.live /\ ~prev.live THEN 1 ELSE 0)
               /\ Emitted(fid, "match_end") = (IF prev.live /\ ~f.live THEN 1 ELSE 0)
               /\ Emitted(fid, "goal") > 0
                    <=> (f.live /\ prev.live /\ (f.home > prev.home \/ f.away > prev.away))
               /\ Emitted(fid, "red_card") > 0
                    <=> (f.live /\ prev.live /\ RedCardAtTail(fid))
    /\ football.raised =>
         football.last_fixtures = football.previous /\ football.events = <<>>

\* what the diff does instead: a red card at the new tail is reported only
\* when no score increased in the same poll (the else branch at line 78)
FeedDiffRedCard ==
    (football.polls > 0 /\ ~football.raised) =>
      \A fid \in FixtureIds :
        LET f == football.last_fixtures[fid]
            prev == football.previous[fid]
        IN  Emitted(fid, "red_card") > 0
              <=> /\ f.live /\ prev.live /\ RedCardAtTail(fid)
                  /\ ~(f.home > prev.home \/ f.away > prev.away)

\* ---- C37 ----
Unaccounted(state) ==
    state.opportunities_seen - (state.trades_executed + state.trades_aborted)

\* one call of execute has run from its first statement to its return
ExecuteReturned == trader'.calls = trader.calls + 1

CountersStep ==
    ExecuteReturned =>
      /\ trader'.state.opportunities_seen = trader.state.opportunities_seen + 1
      /\ \/ /\ trader'.state.trades_executed = trader.state.trades_executed + 1
            /\ trader'.state.trades_aborted = trader.state.trades_aborted
            /\ trader'.last.outcome = "SUCCESS"
         \/ /\ trader'.state.trades_aborted = trader.state.trades_aborted + 1
            /\ trader'.state.trades_executed = trader.state.trades_executed
            /\ trader'.last.outcome # "SUCCESS"

\* C37: with execute calls run one after the other, opportunities_seen minus
\* (trades_executed + trades_aborted) always has the value it had in the
\* loaded initial state (0 for a fresh one), and every call, the ERROR
\* outcome included, adds 1 to opportunities_seen and 1 to exactly one of
\* trades_executed and trades_aborted.
C37_CounterConservation ==
    /\ [](trader.constructed => Unaccounted(trader.state) = Unaccounted(trader.start))
    /\ [][CountersStep]_vars

\* a resumed run whose second call ended with ERROR
C37_Witness ==
    /\ trader.calls = 2
    /\ trader.start.opportunities_seen = 3
    /\ trader.last.outcome = "ERROR"
    /\ trader.state.opportunities_seen = 5

\* ---- C38 ----
LiveCombined == trader.last.book.live_yes + trader.last.book.live_no

LiveShares ==
    Min3((max_trade * 100) \div trader.last.book.live_yes,
         (max_trade * 100) \div trader.last.book.live_no,
         (max_risk * 100) \div LiveCombined)

LiveCost == (LiveShares * LiveCombined) \div 100

LiveProfit == (LiveShares * (100 - LiveCombined)) \div 100

FillAccounting ==
    trader.last.outcome = "SUCCESS" =>
      /\ LiveProfit > 0
      /\ LiveShares - LiveCost = LiveProfit
      /\ trader.state.balance_usdc = trader.last.before.balance_usdc + LiveProfit
      /\ trader.state.total_profit_usdc
           = trader.last.before.total_profit_usdc + LiveProfit

C39_ClosedNotTracked ==
    (kind = "mirror" /\ last_call.op = "close" /\ last_call.token # NoAsset) =>
      /\ last_call.token \notin Open(portfolio)
      /\ last_call.token \notin Queued(portfolio)

\* ---- C40 ----
\* a callback of the poll in flight has just run
CallbackRan == poller.pc = "callbacks" /\ Len(poller'.pending) < Len(poller.pending)

\* C40: once MirrorBot.reset has returned, no opened or closed callback of an
\* address changes the portfolio before that address has completed a
\* baseline poll begun after the reset, also when the reset ran while the
\* poll thread was inside _process_positions; and the first poll an address
\* begins and completes after the reset is a baseline poll.
C40_ResetRace ==
    /\ [][(CallbackRan /\ poller.reset_returned /\ poller.addr \notin poller.baselined)
            => portfolio' = portfolio]_vars
    /\ [](\A a \in Addrs : poller.first_done[a] # "diff")

====
